---- MODULE Spec2Model ----
(***************************************************************************)
(* A model of msAnalyzer.py: the natural-abundance correction engine       *)
(* (class NAProcess), the ion-cluster resolver, the standard-curve fitter, *)
(* the debounced recomputation of MSDataContainer and the standard-curve   *)
(* inspector of the GUI.                                                   *)
(*                                                                         *)
(* Strings that the program parses are sequences of one-character strings, *)
(* so that formatting (str) and parsing (re.findall, int) are computed.    *)
(* Isotope fractions are integers in parts per million (0.999885 is        *)
(* 999885).  Other floats are exact rationals <<numerator, denominator>>;  *)
(* NaN, and the result of a division by zero, is the empty tuple.          *)
(*                                                                         *)
(* Specifications: SpecFormula and SpecCorrect (NAProcess), SpecParse      *)
(* (parseFormula on arbitrary strings), SpecMatrix and SpecRoundTrip (the  *)
(* correction matrix entry by entry, on small integer isotope weights),    *)
(* SpecLabeled and SpecCluster (ingestion of the columns), SpecFits and    *)
(* SpecBorrow (standard curves on tables of numbers), SpecInspector (the   *)
(* point selection of the inspector and the refit it sends), SpecProportion*)
(* (labeled proportions), SpecNormalization and SpecTemplate (the          *)
(* normalization factors and the volumes read from the template), Spec     *)
(* (the container with its mutators and timer                              *)
(* threads; there the tables dataDf_norm, standardDf_nMoles, the fits, the *)
(* masks and the quantification are held symbolically, as the parameter    *)
(* values they were computed from).                                        *)
(***************************************************************************)
EXTENDS Integers, Sequences, FiniteSets, TLC

VARIABLES
  \* ---- one NAProcess object and one call of correctForNaturalAbundance
  entry,            \* constructor argument: the ion name, e.g. "C16:0 (270)"
  FAMES,            \* constructor argument
  CHOL,             \* constructor argument
  atomTracer,       \* self.atomTracer
  purityTracer,     \* self.purityTracer
  NaturalAbundanceDistributions, \* self.NaturalAbundanceDistributions
  formula,          \* self.formula
  elementsDict,     \* self.elementsDict
  correctionMatrix, \* self.correctionMatrix (its shape and the size handling)
  naPc,             \* "new", "built", "returned", "raised"; "string", "parsed"
                    \* for a call of parseFormula on its own
  dataFrame,        \* argument of correctForNaturalAbundance: rows of intensities
  method,           \* argument of correctForNaturalAbundance
  naWarning,        \* the size warning of correctForNaturalAbundance was printed
  naError,          \* the exception that left the call, or "none"
  correctedData,    \* the returned table, rows of corrected values
  \* ---- calls of computeCorrectionMatrix with arguments of the caller's choice
  matrixArgs,       \* [elementDict, atomTracer, NADistributions, purityTracer]
  matrixResults,    \* what each call with these arguments returned, in order
  \* ---- ingestion of the data file's columns (_computeFileAttributes)
  ionsDetected,     \* the parsed columns: records [mass, description]
  letter,           \* first letter of the first sample name: "F" or "C"
  cholesterol,      \* self._cholesterol
  experimentType,   \* self.experimentType
  finalGroups,      \* the clusters: records [key, group], group of [idx, ion]
  orderedIdx,       \* the column order of the reordered data table
  dataColNames,     \* self.dataColNames
  internalRefList,  \* self.internalRefList
  dataDfCols,       \* the data columns of self.dataDf, by name
  clPc,             \* "new", "done", "AssertionError"
  \* ---- standard curves and quantification
  standardDf_nMoles,      \* self.standardDf_nMoles: columns [name, values]
  dataDf_norm,            \* self.dataDf_norm: data columns [name, standards, sample],
                          \* the signals of the standards' rows and of one sample row
  maskFAMES,              \* self._maskFAMES: name -> [originalMask, hasNew, newMask]
  standardDf_fitResults,  \* self.standardDf_fitResults: name -> [slope, intercept, R2]
  dataDf_quantification,  \* the quantities of the sample row: name -> quantity
  normalization,          \* what getNormalizationArray returned, row by row
  fitPc,                  \* "new", "fitted", "quantified", "KeyError"
  \* ---- one MSDataContainer, its parameters, its derived views and the
  \* timer threads of the debounced computeNACorrectionDf.  In the container
  \* specification a derived view is held symbolically: empty while the
  \* attribute does not exist, else <<the values it was computed from>>
  internalRef,            \* self.internalRef
  tracer,                 \* self.tracer
  tracerPurity,           \* self.tracerPurity
  NACMethod,              \* self.NACMethod
  volumeMixTotal,         \* self.volumeMixTotal
  volumeMixForPrep,       \* self.volumeMixForPrep
  volumeStandards,        \* self.volumeStandards
  volumesOfDilution,      \* self.volumesOfDilution
  volumesOfSampleSoupUsed, \* self.volumesOfSampleSoupUsed
  weightNormalization,    \* self.weightNormalization
  dataDf_corrected,       \* self.dataDf_corrected
  dataDf_labeledProportions, \* self.dataDf_labeledProportions
  timers,                 \* every Timer created so far, by creation order:
                          \* "waiting", "cancelled", "running", "finished", "raised"
  debouncedT,             \* debounced.t: index of the latest Timer, 0 before the first
  threads,                \* the locals of each timer thread inside the body
  ctPc,                   \* "new" before __init__ has returned, then "ready";
                          \* "AssertionError" after a template update that failed
  nCalls,                 \* mutator calls made so far
  \* ---- history of the debounced calls, for the claims only
  callParams,             \* (tracer, purity, method) at the return of each call
  superseded,             \* the next call came while this call's timer was waiting
  bodyStarts,             \* how many times each timer started the body
  reads,                  \* what each body read, and whether its call was the latest
  \* ---- the standard-curve inspector of the GUI (modifySelection)
  FAMESselected,          \* the names chosen in the FAMES list box, in its order
  currentFAMESidx,        \* index into FAMESselected of the plot shown (from 0)
  pointsListbox,          \* pointsListbox.curselection(): the selected indices (from 0)
  inspectorPc             \* "idle" (no GUI), "closed", "open", "sent",
                          \* "noButtons", "IndexError"

naVars == <<entry, FAMES, CHOL, atomTracer, purityTracer,
            NaturalAbundanceDistributions, formula, elementsDict,
            correctionMatrix, naPc, dataFrame, method, naWarning, naError,
            correctedData, matrixArgs, matrixResults>>

clVars == <<ionsDetected, letter, cholesterol, experimentType, finalGroups,
            orderedIdx, dataColNames, internalRefList, dataDfCols, clPc>>

fitVars == <<standardDf_nMoles, dataDf_norm,
             maskFAMES, standardDf_fitResults, dataDf_quantification, normalization, fitPc>>

ctVars == <<internalRef, tracer, tracerPurity, NACMethod, volumeMixTotal,
            volumeMixForPrep, volumeStandards, volumesOfDilution,
            volumesOfSampleSoupUsed, weightNormalization, dataDf_corrected,
            dataDf_labeledProportions, timers, debouncedT, threads, ctPc,
            nCalls>>

histVars == <<callParams, superseded, bodyStarts, reads>>

guiVars == <<FAMESselected, currentFAMESidx, pointsListbox, inspectorPc>>

vars == <<naVars, clVars, fitVars, ctVars, histVars, guiVars>>

None == "None"
NaN == <<>>

\* the float of an integer
F(n) == <<n, 1>>

(***************************************************************************)
(* Sequences and characters                                                *)
(***************************************************************************)
Digits == <<"0", "1", "2", "3", "4", "5", "6", "7", "8", "9">>

IsDigit(c) == \E i \in 1..10 : Digits[i] = c

DigitValue(c) == (CHOOSE i \in 1..10 : Digits[i] = c) - 1

\* str(n) for an integer n
RECURSIVE NatToStr(_)
NatToStr(n) ==
  IF n < 10 THEN <<Digits[n + 1]>>
  ELSE NatToStr(n \div 10) \o <<Digits[(n % 10) + 1]>>

IntToStr(n) == IF n < 0 THEN <<"-">> \o NatToStr(-n) ELSE NatToStr(n)

\* int(s) for a string of digits
RECURSIVE StrToNat(_)
StrToNat(s) ==
  IF Len(s) = 0 THEN 0
  ELSE 10 * StrToNat(SubSeq(s, 1, Len(s) - 1)) + DigitValue(s[Len(s)])

\* the index after the longest run of digits of s that starts at i
RECURSIVE DigitRunEnd(_, _)
DigitRunEnd(s, i) ==
  IF i <= Len(s) /\ IsDigit(s[i]) THEN DigitRunEnd(s, i + 1) ELSE i

\* a | b on naturals (Python's bitwise or; True is 1, False is 0)
RECURSIVE BitOr(_, _)
BitOr(a, b) ==
  IF a = 0 THEN b
  ELSE IF b = 0 THEN a
  ELSE 2 * BitOr(a \div 2, b \div 2) + (IF a % 2 = 1 \/ b % 2 = 1 THEN 1 ELSE 0)

BoolToInt(b) == IF b THEN 1 ELSE 0

Abs(n) == IF n < 0 THEN -n ELSE n

RECURSIVE GCD(_, _)
GCD(a, b) == IF b = 0 THEN a ELSE GCD(b, a % b)

\* the rational n/d in lowest terms with a positive denominator, as <<n, d>>;
\* a zero denominator (a division by zero of floats) is NaN
Rat(n, d) ==
  IF d = 0 THEN NaN
  ELSE LET g == GCD(Abs(n), Abs(d))
           sign == IF d < 0 THEN -1 ELSE 1
       IN <<sign * (n \div g), sign * (d \div g)>>

RatSub(a, b) ==
  IF a = NaN \/ b = NaN THEN NaN ELSE Rat(a[1] * b[2] - b[1] * a[2], a[2] * b[2])

RatDiv(a, b) ==
  IF a = NaN \/ b = NaN THEN NaN ELSE Rat(a[1] * b[2], a[2] * b[1])

RatMul(a, b) ==
  IF a = NaN \/ b = NaN THEN NaN ELSE Rat(a[1] * b[1], a[2] * b[2])

RECURSIVE Flatten(_)
Flatten(ss) == IF Len(ss) = 0 THEN <<>> ELSE ss[1] \o Flatten(Tail(ss))

\* the elements of a sequence, as a set
Range(s) == {s[i] : i \in 1..Len(s)}

RECURSIVE SumSeq(_)
SumSeq(s) == IF Len(s) = 0 THEN 0 ELSE s[1] + SumSeq(Tail(s))

(***************************************************************************)
(* NAProcess                                                               *)
(***************************************************************************)
\* the keys of the dictionary, in its insertion order
ElementNames == <<"H", "C", "N", "O", "Si", "S">>

Elements == {ElementNames[i] : i \in 1..Len(ElementNames)}

\* __getNaturalAbundanceDistributions, in parts per million
getNaturalAbundanceDistributions ==
  [H  |-> <<999885, 115>>,
   C  |-> <<989300, 10700>>,
   N  |-> <<996320, 3680>>,
   O  |-> <<997570, 380, 2050>>,
   Si |-> <<922297, 46832, 30872>>,
   S  |-> <<949300, 7600, 42900, 200>>]

\* 1.0 in parts per million
PPM == 10 ^ 6

\* re.findall("C([0-9]+):([0-9]+)", entry): the first match at or after i,
\* as <<carbon, doubleBond>>, or None when there is none
RECURSIVE FindChain(_, _)
FindChain(s, i) ==
  IF i > Len(s) THEN None
  ELSE LET e1 == DigitRunEnd(s, i + 1)
           e2 == DigitRunEnd(s, e1 + 1)
       IN IF /\ s[i] = "C"
             /\ e1 > i + 1
             /\ e1 <= Len(s) /\ s[e1] = ":"
             /\ e2 > e1 + 1
          THEN <<StrToNat(SubSeq(s, i + 1, e1 - 1)),
                 StrToNat(SubSeq(s, e1 + 1, e2 - 1))>>
          ELSE FindChain(s, i + 1)

\* "".join of letter and str(n) over the pairs with n > 0
RECURSIVE JoinPositive(_)
JoinPositive(pairs) ==
  IF Len(pairs) = 0 THEN <<>>
  ELSE (IF pairs[1][2] > 0 THEN pairs[1][1] \o IntToStr(pairs[1][2]) ELSE <<>>)
       \o JoinPositive(Tail(pairs))

\* getFAFormulaString with the derivatization branch of lines 69-71 left out
getFAFormulaString_noDerivatization(e, fames, chol) ==
  LET found == FindChain(e, 1)
      hydrogen == 3 + (found[1] - 2) * 2 + 1 - 2 * found[2]
  IN IF found = None THEN "IndexError"
     ELSE JoinPositive(<< <<(<<"C">>), IF chol THEN 30 ELSE found[1]>>,
                          <<(<<"H">>), IF chol THEN 54 ELSE hydrogen>>,
                          <<(<<"S", "i">>), IF chol THEN 1 ELSE 0>>,
                          <<(<<"O">>), IF chol THEN 1 ELSE 2>> >>)

\* getFAFormulaString: the formula string, or "IndexError" when the chain
\* notation is not found in the entry
getFAFormulaString(e, fames, chol) ==
  LET found == FindChain(e, 1)
      carbon0 == found[1]
      doubleBond == found[2]
      hydrogen0 == 3 + (carbon0 - 2) * 2 + 1 - 2 * doubleBond
      carbon1 == IF fames THEN carbon0 + 1 ELSE carbon0
      hydrogen1 == IF fames THEN hydrogen0 - 1 + 3 ELSE hydrogen0
      carbon == IF chol THEN 30 ELSE carbon1
      hydrogen == IF chol THEN 54 ELSE hydrogen1
      oxygen == IF chol THEN 1 ELSE 2
      silicon == IF chol THEN 1 ELSE 0
  IN IF found = None THEN "IndexError"
     ELSE JoinPositive(<< <<(<<"C">>), carbon>>, <<(<<"H">>), hydrogen>>,
                          <<(<<"S", "i">>), silicon>>, <<(<<"O">>), oxygen>> >>)

\* the element symbols as the regular expression of parseFormula spells them
ElementChars == << <<"H">>, <<"C">>, <<"N">>, <<"O">>, <<"S", "i">>, <<"S">> >>

\* the last alternative that matches: S before Si
SymbolAt_lastAlternative(s, i) ==
  LET fits(k) == /\ i + Len(ElementChars[k]) - 1 <= Len(s)
                 /\ SubSeq(s, i, i + Len(ElementChars[k]) - 1) = ElementChars[k]
  IN IF \E k \in 1..Len(ElementChars) : fits(k)
     THEN CHOOSE k \in 1..Len(ElementChars) :
            fits(k) /\ \A j \in (k + 1)..Len(ElementChars) : ~fits(j)
     ELSE 0

\* the first alternative of (H|C|N|O|Si|S) that matches s at i, or 0
SymbolAt(s, i) ==
  LET fits(k) == /\ i + Len(ElementChars[k]) - 1 <= Len(s)
                 /\ SubSeq(s, i, i + Len(ElementChars[k]) - 1) = ElementChars[k]
  IN IF \E k \in 1..Len(ElementChars) : fits(k)
     THEN CHOOSE k \in 1..Len(ElementChars) :
            fits(k) /\ \A j \in 1..(k - 1) : ~fits(j)
     ELSE 0

\* the loop over re.findall("(H|C|N|O|Si|S)([0-9]{0,})", formula) from index i
RECURSIVE ParseFrom(_, _, _)
ParseFrom(s, i, dict) ==
  IF i > Len(s) THEN dict
  ELSE LET k == SymbolAt(s, i)
           e == i + Len(ElementChars[k])
           de == DigitRunEnd(s, e)
           n == IF de = e THEN 1 ELSE StrToNat(SubSeq(s, e, de - 1))
       IN IF k = 0 THEN ParseFrom(s, i + 1, dict)
          ELSE ParseFrom(s, de, [dict EXCEPT ![ElementNames[k]] = @ + n])

\* parseFormula
parseFormula(f) == ParseFrom(f, 1, [el \in Elements |-> 0])

\* __calculateMassDistributionVector: the length of the vector it returns
\* (np.convolve of lengths a and b has length a + b - 1)
RECURSIVE MassDistributionLen(_, _, _, _)
MassDistributionLen(elementDict, tracerAtom, NADistributions, k) ==
  IF k > Len(ElementNames) THEN 1
  ELSE LET atom == ElementNames[k]
       IN (IF atom # tracerAtom
           THEN elementDict[atom] * (Len(NADistributions[atom]) - 1)
           ELSE 0)
          + MassDistributionLen(elementDict, tracerAtom, NADistributions, k + 1)

\* computeCorrectionMatrix: the shape of the matrix and what was done about
\* sizes on the way
computeCorrectionMatrix(elementDict, tracerAtom, NADistributions, purity) ==
  LET c == MassDistributionLen(elementDict, tracerAtom, NADistributions, 1)
      nAtomTracer == elementDict[tracerAtom]
      tracerNADistribution == NADistributions[tracerAtom]
      m == 1 + nAtomTracer * (Len(tracerNADistribution) - 1)
  IN IF tracerAtom \notin DOMAIN elementDict THEN [error |-> "KeyError"]
     ELSE [error |-> "none",
           nRows |-> m,
           nCols |-> nAtomTracer + 1,
           sizeWarning |-> (m > c + nAtomTracer * (Len(tracerNADistribution) - 1)),
           padded |-> (c < m)]

\* np.convolve(a, b), mode "full"
Convolve(a, b) ==
  [i \in 1..(Len(a) + Len(b) - 1) |->
     SumSeq([j \in 1..Len(a) |->
               IF i - j + 1 \in 1..Len(b) THEN a[j] * b[i - j + 1] ELSE 0])]

\* the slice left out
Prefix_whole(v, m) == v

\* v[:m]
Prefix(v, m) == SubSeq(v, 1, IF Len(v) < m THEN Len(v) ELSE m)

\* v.resize(m): cut, or extended with zeros
Resize(v, m) == [i \in 1..m |-> IF i <= Len(v) THEN v[i] ELSE 0]

\* for i in range(times): result = np.convolve(result, d)
RECURSIVE ConvolveRepeat(_, _, _)
ConvolveRepeat(result, d, times) ==
  IF times = 0 THEN result ELSE ConvolveRepeat(Convolve(result, d), d, times - 1)

\* the loop of __calculateMassDistributionVector from the k-th element on
RECURSIVE MassDistributionFrom(_, _, _, _, _)
MassDistributionFrom(result, elementDict, tracerAtom, NADistributions, k) ==
  IF k > Len(ElementNames) THEN result
  ELSE LET atom == ElementNames[k]
       IN MassDistributionFrom(
            IF atom # tracerAtom
            THEN ConvolveRepeat(result, NADistributions[atom], elementDict[atom])
            ELSE result,
            elementDict, tracerAtom, NADistributions, k + 1)

\* __calculateMassDistributionVector: starts from [1.]
calculateMassDistributionVector(elementDict, tracerAtom, NADistributions) ==
  MassDistributionFrom(<<1>>, elementDict, tracerAtom, NADistributions, 1)

\* one convolution whatever the count
ConvolveTruncated_once(column, d, times, m) ==
  IF times = 0 THEN column ELSE Prefix(Convolve(column, d), m)

\* for i in range(times): column = np.convolve(column, d)[:m]
RECURSIVE ConvolveTruncated(_, _, _, _)
ConvolveTruncated(column, d, times, m) ==
  IF times = 0 THEN column
  ELSE ConvolveTruncated(Prefix(Convolve(column, d), m), d, times - 1, m)

\* the entries of the matrix computeCorrectionMatrix returns, column by column
\* (lines 136-159); the vector is the base vector after line 147
correctionMatrixColumns(elementDict, tracerAtom, NADistributions, purity) ==
  LET nAtomTracer == elementDict[tracerAtom]
      tracerNADistribution == NADistributions[tracerAtom]
      m == 1 + nAtomTracer * (Len(tracerNADistribution) - 1)
  IN [vector |->
        LET v == calculateMassDistributionVector(elementDict, tracerAtom, NADistributions)
        IN IF Len(v) < m THEN Resize(v, m) ELSE v,
      columns |->
        [i \in 1..(nAtomTracer + 1) |->
           LET correctionVector ==
                 calculateMassDistributionVector(elementDict, tracerAtom, NADistributions)
               resized == IF Len(correctionVector) < m THEN Resize(correctionVector, m)
                          ELSE correctionVector
           IN ConvolveTruncated(
                ConvolveTruncated(Prefix(resized, m), purity, i - 1, m),
                tracerNADistribution, nAtomTracer - (i - 1), m)]]

\* np.linalg.pinv and np.matmul are not computed: an entry of the product of
\* the observed data and the pseudo-inverse may be any real number, of either
\* sign.  RawChoices stands for them.
RawChoices == {-1, 0, 1}

\* line 207 left out
ClampNegative_identity(v) == v

\* correctedData[correctedData<0] = 0
ClampNegative(v) == IF v < 0 THEN 0 ELSE v

\* the lower bound of bounds=[(0., float('inf'))]*len(initialMID)
LowerBound == 0

\* _minimizeCost: the values one component of res.x can take.  L-BFGS-B
\* returns a point inside the bounds it is given.
minimizeCostComponent == {v \in RawChoices : v >= LowerBound}

\* the values one entry of correctedData can take, by method, once the shapes
\* have been found compatible
CorrectedComponent(meth) ==
  IF meth = "SMC" THEN {ClampNegative(v) : v \in RawChoices}
  ELSE minimizeCostComponent

\* correctForNaturalAbundance up to the numerical work: the exception that
\* leaves the call ("none" when it returns) after the size comparison of
\* lines 196-200 and the products of lines 205 and 170
CorrectionOutcome(matrix, nDataCols) ==
  IF matrix.nCols < nDataCols THEN "UnboundLocalError"   \* dfData never assigned
  ELSE IF matrix.nRows # matrix.nCols THEN "ValueError"  \* shapes do not align
  ELSE "none"

(***************************************************************************)
(* parseFormula on strings of the caller's choice                          *)
(***************************************************************************)
MaxFormulaLen == 4

\* the characters of the strings: element symbols, the second letter of Si,
\* digits, and a letter of no symbol
FormulaChars == {"C", "O", "S", "i", "1", "2", "x"}

FormulaStrings == UNION {[1..n -> FormulaChars] : n \in 0..MaxFormulaLen}

\* self.parseFormula(formula): the argument is held in formula, the
\* dictionary returned in elementsDict
parseFormulaCall ==
  /\ naPc = "string"
  /\ elementsDict' = parseFormula(formula)
  /\ naPc' = "parsed"
  /\ UNCHANGED <<entry, FAMES, CHOL, atomTracer, purityTracer,
                 NaturalAbundanceDistributions, formula, correctionMatrix,
                 dataFrame, method, naWarning, naError, correctedData,
                 matrixArgs, matrixResults>>

(***************************************************************************)
(* MSDataContainer: resolution of the data columns into ion clusters       *)
(***************************************************************************)
\* the descriptions of a list of ions, in order
Descriptions(ions) == [i \in 1..Len(ions) |-> ions[i].description]

\* the comparison of line 283 with the ratio's threshold reversed
isLabeledExperiment_atMost(ions) ==
  10 * Cardinality(Range(Descriptions(ions))) <= 6 * Len(ions)

\* __isLabeledExperiment: len(uniqueIons)/len(ionsList) < 0.6.  The quotient of
\* two column counts is below the double 0.6 exactly when 10*unique < 6*total.
isLabeledExperiment(ions) ==
  10 * Cardinality(Range(Descriptions(ions))) < 6 * Len(ions)

\* itertools.groupby over enumerate(ionsDetected): the runs of consecutive
\* ions with equal description, each a sequence of [idx, ion], idx from 0
RECURSIVE GroupBy(_, _)
GroupBy(ions, i) ==
  IF i > Len(ions) THEN <<>>
  ELSE LET sameUntil ==
             CHOOSE e \in i..Len(ions) :
               /\ \A j \in i..e : ions[j].description = ions[i].description
               /\ (e = Len(ions) \/ ions[e + 1].description # ions[i].description)
       IN << [key |-> ions[i].description,
              group |-> [j \in 1..(sameUntil - i + 1) |->
                           [idx |-> i + j - 2, ion |-> ions[i + j - 1]]]] >>
          \o GroupBy(ions, sameUntil + 1)

\* sorted(group, key=mass): stable, by insertion
RECURSIVE SortedByMass(_)
SortedByMass(group) ==
  IF Len(group) <= 1 THEN group
  ELSE LET front == SortedByMass(SubSeq(group, 1, Len(group) - 1))
           last == group[Len(group)]
           pos == Cardinality({j \in 1..Len(front) : front[j].ion.mass <= last.ion.mass})
       IN SubSeq(front, 1, pos) \o <<last>> \o SubSeq(front, pos + 1, Len(front))

\* np.where(differences != 1): the positions (from 0) j with
\* masses[j+1] - masses[j] != 1, ascending
JumpIdx(group) ==
  LET RECURSIVE From(_)
      From(j) ==
        IF j > Len(group) - 2 THEN <<>>
        ELSE (IF group[j + 2].ion.mass - group[j + 1].ion.mass # 1
              THEN <<j>> ELSE <<>>) \o From(j + 1)
  IN From(0)

\* each part begins on the column before its jump
SplitGroup_overlapping(key, group) ==
  LET idx == JumpIdx(group)
  IN [i \in 1..(Len(idx) + 1) |->
        LET start == IF i = 1 THEN 0 ELSE idx[i - 1]
            end == IF i <= Len(idx) THEN idx[i] + 1 ELSE Len(group)
        IN [key |-> key \o <<"-">> \o IntToStr(i - 1),
            group |-> SubSeq(group, start + 1, end)]]

\* the split of one sorted group at its jumps (lines 300-309)
SplitGroup(key, group) ==
  LET idx == JumpIdx(group)
  IN [i \in 1..(Len(idx) + 1) |->
        LET start == IF i = 1 THEN 0 ELSE idx[i - 1] + 1
            end == IF i <= Len(idx) THEN idx[i] + 1 ELSE Len(group)
        IN [key |-> key \o <<"-">> \o IntToStr(i - 1),
            group |-> SubSeq(group, start + 1, end)]]

\* a group is never split
SplitOrKeep_unsplit(g) == <<g>>

\* the body of the loop of lines 292-313 for one group
SplitOrKeep(g) ==
  IF Len(g.group) # 1 /\ Len(JumpIdx(g.group)) > 0
  THEN SplitGroup(g.key, g.group)
  ELSE <<g>>

\* __getIonParentedGroups
getIonParentedGroups(ions) ==
  LET groupedIons == GroupBy(ions, 1)
      groupsIntraSorted ==
        [k \in 1..Len(groupedIons) |->
           [key |-> groupedIons[k].key, group |-> SortedByMass(groupedIons[k].group)]]
  IN Flatten([k \in 1..Len(groupsIntraSorted) |-> SplitOrKeep(groupsIntraSorted[k])])

\* f"C{description[:2]}:{description[2:]} ({mass})"
IonName(description, mass) ==
  <<"C">> \o SubSeq(description, 1, IF Len(description) < 2 THEN Len(description) ELSE 2)
  \o <<":">> \o SubSeq(description, 3, Len(description))
  \o <<" ", "(">> \o IntToStr(mass) \o <<")">>

\* carbon.split('-')[0]
BeforeDash(key) ==
  IF \E i \in 1..Len(key) : key[i] = "-"
  THEN SubSeq(key, 1, (CHOOSE i \in 1..Len(key) :
                         key[i] = "-" /\ \A j \in 1..(i - 1) : key[j] # "-") - 1)
  ELSE key

\* line 351: (idx, name) of every column, cluster after cluster; the name
\* carries the mass of the cluster's first ion and the position n as M.n
sortedIonNames(groups) ==
  Flatten([k \in 1..Len(groups) |->
    [n \in 1..Len(groups[k].group) |->
       [idx |-> groups[k].group[n].idx,
        name |-> IonName(groups[k].group[n].ion.description,
                         groups[k].group[1].ion.mass)
                 \o <<" ", "M", ".">> \o IntToStr(n - 1)]]])

\* any number of groups is accepted
GroupCountAccepted_always(firstLetter, groups) == TRUE

\* lines 345-349: for a letter other than F the assertion on the number of
\* groups
GroupCountAccepted(firstLetter, groups) == firstLetter = "F" \/ Len(groups) = 2

\* lines 372-379: the columns of the returned table; df_Data.iloc[:, 2:] for
\* a labeled experiment of a letter other than F
WorkingColumns(firstLetter, labeled, names) ==
  IF firstLetter = "F" \/ ~labeled THEN names ELSE SubSeq(names, 3, Len(names))

\* _computeFileAttributes, from the parsed columns on
computeFileAttributes ==
  /\ clPc = "new"
  /\ cholesterol' = (letter = "C")
  /\ IF isLabeledExperiment(ionsDetected)
     THEN LET groups == getIonParentedGroups(ionsDetected)
              named == sortedIonNames(groups)
              names == [i \in 1..Len(named) |-> named[i].name]
          IN /\ experimentType' = "Labeled"
             /\ finalGroups' = groups
             /\ IF ~GroupCountAccepted(letter, groups)
                THEN /\ clPc' = "AssertionError"
                     /\ dataColNames' =
                          [i \in 1..Len(ionsDetected) |->
                             IonName(ionsDetected[i].description, ionsDetected[i].mass)]
                     /\ internalRefList' = dataColNames'
                     /\ orderedIdx' = <<>>
                     /\ dataDfCols' = <<>>
                ELSE /\ clPc' = "done"
                     /\ orderedIdx' = [i \in 1..Len(named) |-> named[i].idx]
                     /\ dataColNames' = names
                     /\ internalRefList' =
                          [k \in 1..Len(groups) |->
                             IonName(BeforeDash(groups[k].key),
                                     groups[k].group[1].ion.mass)]
                     /\ dataDfCols' = WorkingColumns(letter, TRUE, names)
     ELSE /\ experimentType' = "Not Labeled"
          /\ finalGroups' = <<>>
          /\ orderedIdx' = [i \in 1..Len(ionsDetected) |-> i - 1]
          /\ dataColNames' =
               [i \in 1..Len(ionsDetected) |->
                  IonName(ionsDetected[i].description, ionsDetected[i].mass)]
          /\ internalRefList' = dataColNames'
          /\ dataDfCols' = WorkingColumns(letter, FALSE, dataColNames')
          /\ clPc' = "done"
  /\ UNCHANGED <<ionsDetected, letter>>

(***************************************************************************)
(* MSDataContainer: standard curves and quantification                     *)
(***************************************************************************)
\* a dictionary with key k set to v
Put(f, k, v) == [x \in (DOMAIN f) \cup {k} |-> IF x = k THEN v ELSE f[x]]

ColumnNames(df) == [i \in 1..Len(df) |-> df[i].name]

\* df[name]: the first column of that name
Column(df, name) == df[CHOOSE i \in 1..Len(df) :
                         df[i].name = name /\ \A j \in 1..(i - 1) : df[j].name # name]

StartsWith(s, t) == Len(s) >= Len(t) /\ SubSeq(s, 1, Len(t)) = t

\* re.match(" \(([0-9]+)\)") at index i of s: the number, or -1 for no match
ParenthesizedMassAt(s, i) ==
  LET e == DigitRunEnd(s, i + 2)
  IN IF /\ i + 1 <= Len(s) /\ s[i] = " " /\ s[i + 1] = "("
        /\ e > i + 2
        /\ e <= Len(s) /\ s[e] = ")"
     THEN StrToNat(SubSeq(s, i + 2, e - 1))
     ELSE -1

\* re.match("(C[0-9]+:[0-9]+) \(([0-9]+)\)", ion): [ok, carbon, mass]
MatchIonName(ion) ==
  LET e1 == DigitRunEnd(ion, 2)
      e2 == DigitRunEnd(ion, e1 + 1)
  IN IF /\ Len(ion) >= 1 /\ ion[1] = "C"
        /\ e1 > 2
        /\ e1 <= Len(ion) /\ ion[e1] = ":"
        /\ e2 > e1 + 1
        /\ ParenthesizedMassAt(ion, e2) # -1
     THEN [ok |-> TRUE, carbon |-> SubSeq(ion, 1, e2 - 1),
           mass |-> ParenthesizedMassAt(ion, e2)]
     ELSE [ok |-> FALSE, carbon |-> <<>>, mass |-> -1]

\* the last matching column, whatever its mass
checkIfParentalIonDataExistsFor_last(ion, nMoles) ==
  LET parsed == MatchIonName(ion)
      matchingCarbons == SelectSeq(ColumnNames(nMoles),
                                   LAMBDA c : StartsWith(c, parsed.carbon))
  IN IF ~parsed.ok \/ Len(matchingCarbons) = 0 THEN [found |-> FALSE, name |-> <<>>]
     ELSE [found |-> TRUE, name |-> matchingCarbons[Len(matchingCarbons)]]

\* _checkIfParentalIonDataExistsFor: [found, name].  Any exception on the way
\* (no match of the ion name, a matching column without a mass) gives
\* found = FALSE.
checkIfParentalIonDataExistsFor(ion, nMoles) ==
  LET parsed == MatchIonName(ion)
      columns == ColumnNames(nMoles)
      matchingCarbons == SelectSeq(columns, LAMBDA c : StartsWith(c, parsed.carbon))
      massOf(c) == ParenthesizedMassAt(c, Len(parsed.carbon) + 1)
      \* sorted(..., key=mass)[-1]: the greatest mass, the last of them in a tie
      idxHeaviest ==
        CHOOSE i \in 1..Len(matchingCarbons) :
          /\ \A j \in 1..Len(matchingCarbons) :
               massOf(matchingCarbons[j]) <= massOf(matchingCarbons[i])
          /\ \A j \in (i + 1)..Len(matchingCarbons) :
               massOf(matchingCarbons[j]) < massOf(matchingCarbons[i])
  IN IF ~parsed.ok THEN [found |-> FALSE, name |-> <<>>]
     ELSE IF Len(matchingCarbons) = 0 THEN [found |-> FALSE, name |-> <<>>]
     ELSE IF \E j \in 1..Len(matchingCarbons) : massOf(matchingCarbons[j]) = -1
          THEN [found |-> FALSE, name |-> <<>>]
     ELSE [found |-> TRUE, name |-> matchingCarbons[idxHeaviest]]

\* mask2 left out: a signal of zero stays usable
ValidPair_zeroAllowed(x, y) == ~(x = NaN \/ y = NaN)

\* the mask of lines 743-745 for one pair: neither value missing, signal not 0
ValidPair(x, y) ==
  LET mask1 == ~(x = NaN \/ y = NaN)
      mask2 == ~(x = NaN \/ y = F(0))
  IN mask1 /\ mask2

\* xvals[mask]
Masked(vals, mask) ==
  LET RECURSIVE From(_)
      From(i) == IF i > Len(vals) THEN <<>>
                 ELSE (IF mask[i] THEN <<vals[i]>> ELSE <<>>) \o From(i + 1)
  IN From(1)

\* the test of line 757, ((len(xvalsToFit)<3)|len(yvalsToFit)<3): Python reads
\* it as ((len(x) < 3) | len(y)) < 3, | binding tighter than <
TooFewValues(nx, ny) == BitOr(BoolToInt(nx < 3), ny) < 3

\* stats.linregress on integer-valued data xf, yf, exactly: [slope, intercept, R2]
linregress(xf, yf) ==
  LET n == Len(xf)
      x == [i \in 1..n |-> xf[i][1]]
      y == [i \in 1..n |-> yf[i][1]]
      sx == SumSeq(x)
      sy == SumSeq(y)
      sxx == n * SumSeq([i \in 1..n |-> x[i] * x[i]]) - sx * sx
      sxy == n * SumSeq([i \in 1..n |-> x[i] * y[i]]) - sx * sy
      syy == n * SumSeq([i \in 1..n |-> y[i] * y[i]]) - sy * sy
  IN [slope |-> Rat(sxy, sxx),
      intercept |-> Rat(sy * sxx - sxy * sx, n * sxx),
      R2 |-> IF sxx = 0 \/ syy = 0 THEN Rat(0, 1) ELSE Rat(sxy * sxy, sxx * syy)]

\* the original mask, whatever was recorded
MaskFor_original(recorded) == recorded.originalMask

\* lines 748-753: the new mask when one was recorded for this ion, else
\* (the lookup raising) the original mask
MaskFor(recorded) ==
  IF recorded.hasNew THEN recorded.newMask ELSE recorded.originalMask

\* the loop of computeStandardFits from column i on: the masks and fits it
\* leaves, and the exception that ended it ("none" when it ran through)
RECURSIVE FitLoop(_, _, _, _)
FitLoop(i, useMask, masks, fits) ==
  IF i > Len(dataDf_norm) THEN [masks |-> masks, fits |-> fits, error |-> "none"]
  ELSE
    LET col == dataDf_norm[i].name
        own == \E k \in 1..Len(standardDf_nMoles) : standardDf_nMoles[k].name = col
        isParentalIon == checkIfParentalIonDataExistsFor(col, standardDf_nMoles)
        xvals == IF own THEN Column(standardDf_nMoles, col).values
                 ELSE Column(standardDf_nMoles, isParentalIon.name).values
        yvals == dataDf_norm[i].standards
        originalMask == [p \in 1..Len(xvals) |-> ValidPair(xvals[p], yvals[p])]
        masks1 == IF useMask THEN masks
                  ELSE Put(masks, col, [originalMask |-> originalMask,
                                        hasNew |-> FALSE, newMask |-> <<>>])
        mask == IF ~useMask THEN originalMask ELSE MaskFor(masks[col])
        xvalsToFit == Masked(xvals, mask)
        yvalsToFit == Masked(yvals, mask)
    IN IF ~own /\ ~isParentalIon.found
       THEN FitLoop(i + 1, useMask, masks, fits)                 \* no standard data
       ELSE IF useMask /\ col \notin DOMAIN masks
       THEN [masks |-> masks, fits |-> fits, error |-> "KeyError"]
       ELSE IF TooFewValues(Len(xvalsToFit), Len(yvalsToFit))
       THEN FitLoop(i + 1, useMask, masks1, fits)                \* skipped
       ELSE FitLoop(i + 1, useMask, masks1,
                    Put(fits, col, linregress(xvalsToFit, yvalsToFit)))

\* the fits of computeStandardFits(useMask): fitDf starts empty, and so does
\* _maskFAMES unless useMask
StandardFits(useMask) ==
  FitLoop(1, useMask, IF useMask THEN maskFAMES ELSE <<>>, <<>>)

\* computeStandardFits(useMask)
computeStandardFits(useMask) ==
  /\ fitPc \in {"new", "fitted", "quantified", "KeyError"}
  /\ \E res \in {StandardFits(useMask)} :
        IF res.error = "none"
        THEN /\ maskFAMES' = res.masks
             /\ standardDf_fitResults' = res.fits
             /\ fitPc' = "fitted"
        ELSE /\ maskFAMES' = res.masks
             /\ UNCHANGED standardDf_fitResults
             /\ fitPc' = res.error
  /\ UNCHANGED <<standardDf_nMoles, dataDf_norm, dataDf_quantification, normalization>>

\* the intercept left out
Quantity_noIntercept(signal, slope, intercept) == RatDiv(signal, slope)

\* line 796: (self.dataDf_norm[col]-intercept)/slope, one sample
Quantity(signal, slope, intercept) == RatDiv(RatSub(signal, intercept), slope)

\* computeQuantificationFromStandardFits(useMask), its result stored as
\* saveStandardCurvesAndResults stores it (line 571)
computeQuantificationFromStandardFits(useMask) ==
  /\ fitPc \in {"new", "fitted", "quantified", "KeyError"}
  /\ \E res \in {StandardFits(useMask)} :
        IF res.error = "none"
        THEN /\ maskFAMES' = res.masks
             /\ standardDf_fitResults' = res.fits
             /\ dataDf_quantification' =
                  [col \in DOMAIN res.fits |->
                     Quantity(Column(dataDf_norm, col).sample,
                              res.fits[col].slope, res.fits[col].intercept)]
             /\ fitPc' = "quantified"
        ELSE /\ maskFAMES' = res.masks
             /\ UNCHANGED <<standardDf_fitResults, dataDf_quantification>>
             /\ fitPc' = res.error
  /\ UNCHANGED <<standardDf_nMoles, dataDf_norm, normalization>>

(***************************************************************************)
(* MSAnalyzer: the standard-curve inspector                                *)
(***************************************************************************)
\* line 1197: maskSelected, point i of the list box being index i - 1 here
MaskSelected(n, selection) == [i \in 1..n |-> (i - 1) \notin selection]

\* the selection alone, the original mask left out
NewMask_selectionOnly(originalMask, maskSelected) == maskSelected

\* line 1198: newMask
NewMask(originalMask, maskSelected) ==
  [i \in 1..Len(originalMask) |-> originalMask[i] /\ maskSelected[i]]

\* the indices (from 0) that a mask leaves out
MaskedIndices(mask) == {i - 1 : i \in {j \in 1..Len(mask) : ~mask[j]}}

\* plotIsolatedFAMES(famesName, ..., pointsListbox, direction) with the list
\* box holding `selection` at the call: the new mask is recorded, and the
\* points left out are selected in the list box.  The drawing that follows
\* changes nothing of the container.
plotIsolatedFAMES(famesName, selection, direction) ==
  LET originalMask == maskFAMES[famesName].originalMask
      \* direction 1 starts with a fresh list box
      curselection == IF direction = 1 THEN {} ELSE selection
      newMask == NewMask(originalMask, MaskSelected(Len(originalMask), curselection))
  IN /\ maskFAMES' = Put(maskFAMES, famesName,
                         [originalMask |-> originalMask, hasNew |-> TRUE,
                          newMask |-> newMask])
     /\ pointsListbox' =
          curselection \cup MaskedIndices(originalMask)
            \cup (IF direction = 0 THEN MaskedIndices(newMask) ELSE {})

\* the regression of line 1215 on the points of a mask raises ValueError on
\* no point at all; on a single point it raises or returns NaN, by the
\* version of scipy
DrawingOutcomes(mask) ==
  LET n == Cardinality({i \in 1..Len(mask) : mask[i]})
  IN IF n = 0 THEN {"ValueError"}
     ELSE IF n = 1 THEN {"ValueError", "drawn"}
     ELSE {"drawn"}

\* the keys of _maskFAMES in the order of the list box (insertion order)
MaskedFAMES ==
  SelectSeq(ColumnNames(dataDf_norm), LAMBDA name : name \in DOMAIN maskFAMES)

\* inspectStandardPlots, then the button Select: modifySelection with the
\* names `chosen` selected in the list box.  An exception of the first plot
\* leaves the inspector without its buttons.
modifySelection(chosen) ==
  /\ inspectorPc \in {"closed", "sent", "IndexError"}
  /\ fitPc = "quantified"
  /\ FAMESselected' = SelectSeq(MaskedFAMES, LAMBDA name : name \in chosen)
  /\ currentFAMESidx' = 0
  /\ IF FAMESselected' = <<>>
     THEN /\ inspectorPc' = "IndexError"
          /\ UNCHANGED <<maskFAMES, pointsListbox>>
     ELSE /\ plotIsolatedFAMES(FAMESselected'[1], {}, 1)
          /\ \E outcome \in DrawingOutcomes(maskFAMES[FAMESselected'[1]].originalMask) :
                inspectorPc' = IF outcome = "drawn" THEN "open" ELSE "noButtons"
  /\ UNCHANGED <<standardDf_nMoles, dataDf_norm, standardDf_fitResults,
                 dataDf_quantification, normalization, fitPc>>

\* a click on point p of the list box (selectmode multiple: the click
\* toggles it), then the handler updateSelection
updateSelection(p) ==
  /\ inspectorPc \in {"open", "noButtons"}
  /\ p \in 0..(Len(maskFAMES[FAMESselected[currentFAMESidx + 1]].originalMask) - 1)
  /\ plotIsolatedFAMES(FAMESselected[currentFAMESidx + 1],
                       IF p \in pointsListbox THEN pointsListbox \ {p}
                       ELSE pointsListbox \cup {p}, 0)
  /\ UNCHANGED <<FAMESselected, currentFAMESidx, inspectorPc>>
  /\ UNCHANGED <<standardDf_nMoles, dataDf_norm, standardDf_fitResults,
                 dataDf_quantification, normalization, fitPc>>

\* the buttons Next (direction 1) and Previous (direction -1): another plot,
\* nothing before the first one, and after the last one the inspector is
\* closed and saveStandardCurvesAndResults(useMask=True) is called
goToNextPlot(direction) ==
  /\ inspectorPc = "open"
  /\ IF currentFAMESidx + direction >= 0 /\ currentFAMESidx + direction < Len(FAMESselected)
     THEN /\ currentFAMESidx' = currentFAMESidx + direction
          /\ plotIsolatedFAMES(FAMESselected[currentFAMESidx' + 1], pointsListbox, 1)
          /\ UNCHANGED <<FAMESselected, inspectorPc>>
          /\ UNCHANGED <<standardDf_nMoles, dataDf_norm, standardDf_fitResults,
                         dataDf_quantification, normalization, fitPc>>
     ELSE IF currentFAMESidx + direction < 0
     THEN UNCHANGED <<fitVars, guiVars>>
     ELSE /\ computeQuantificationFromStandardFits(TRUE)
          /\ inspectorPc' = "sent"
          /\ UNCHANGED <<FAMESselected, currentFAMESidx, pointsListbox>>

\* computeResults of the GUI: saveStandardCurvesAndResults(), after which
\* the inspector is on offer; the button stays usable while it is open
computeResults ==
  /\ inspectorPc # "idle"
  /\ computeQuantificationFromStandardFits(FALSE)
  /\ UNCHANGED guiVars

(***************************************************************************)
(* Inputs of the NAProcess specifications                                  *)
(***************************************************************************)
MaxDoubleBond == 2
MaxRows == 1
MaxDataCols == 2

CarbonChoices == {1, 2, 16}

ObservedChoices == {0, 1}

\* "Cn:d", followed by " (mass)" as the container's ion names are
MakeEntry(n, d, withMass) ==
  <<"C">> \o IntToStr(n) \o <<":">> \o IntToStr(d)
  \o (IF withMass THEN <<" ", "(">> \o IntToStr(270) \o <<")">> ELSE <<>>)

EntryChoices ==
  {MakeEntry(n, d, w) : n \in CarbonChoices, d \in 0..MaxDoubleBond, w \in BOOLEAN}
  \cup {<<"1", "6", ":", "0">>}

\* the purity vector [0, 1] of the constructor's default
DefaultPurity == <<0, PPM>>

DataFrames ==
  UNION {[1..r -> [1..c -> ObservedChoices]] : r \in 1..MaxRows, c \in 1..MaxDataCols}

\* the state of the parts a specification does not exercise
FitIdle ==
  /\ standardDf_nMoles = <<>> /\ dataDf_norm = <<>> /\ maskFAMES = <<>> /\ standardDf_fitResults = <<>>
  /\ dataDf_quantification = <<>> /\ normalization = <<>> /\ fitPc = "idle"

NAIdle ==
  /\ entry = <<>> /\ FAMES = TRUE /\ CHOL = FALSE /\ atomTracer = "H"
  /\ purityTracer = DefaultPurity /\ NaturalAbundanceDistributions = <<>>
  /\ formula = None /\ elementsDict = None /\ correctionMatrix = None
  /\ naPc = "idle" /\ dataFrame = <<>> /\ method = None /\ naWarning = FALSE
  /\ naError = "none" /\ correctedData = <<>>
  /\ matrixArgs = <<>> /\ matrixResults = <<>>

CtIdle ==
  /\ internalRef = None /\ tracer = None /\ tracerPurity = <<>> /\ NACMethod = None
  /\ volumeMixTotal = 0 /\ volumeMixForPrep = 0 /\ volumeStandards = <<>>
  /\ volumesOfDilution = <<>> /\ volumesOfSampleSoupUsed = <<>>
  /\ weightNormalization = FALSE /\ dataDf_corrected = <<>>
  /\ dataDf_labeledProportions = <<>> /\ timers = <<>> /\ debouncedT = 0
  /\ threads = <<>> /\ ctPc = "idle" /\ nCalls = 0
  /\ callParams = <<>> /\ superseded = <<>> /\ bodyStarts = <<>> /\ reads = <<>>

ClIdle ==
  /\ ionsDetected = <<>> /\ letter = "F" /\ cholesterol = FALSE
  /\ experimentType = None /\ finalGroups = <<>> /\ orderedIdx = <<>>
  /\ dataColNames = <<>> /\ internalRefList = <<>> /\ dataDfCols = <<>>
  /\ clPc = "idle"

GuiIdle ==
  /\ FAMESselected = <<>> /\ currentFAMESidx = 0 /\ pointsListbox = {}
  /\ inspectorPc = "idle"

NAInitCommon ==
  /\ purityTracer = DefaultPurity
  /\ atomTracer \in Elements
  /\ NaturalAbundanceDistributions = <<>>
  /\ formula = None
  /\ elementsDict = None
  /\ correctionMatrix = None
  /\ naPc = "new"
  /\ dataFrame = <<>>
  /\ method = None
  /\ naWarning = FALSE
  /\ naError = "none"
  /\ correctedData = <<>>
  /\ matrixArgs = <<>>
  /\ matrixResults = <<>>

\* NAProcess.__init__
NAProcessInit ==
  /\ naPc = "new"
  /\ NaturalAbundanceDistributions' = getNaturalAbundanceDistributions
  /\ formula' = getFAFormulaString(entry, FAMES, CHOL)
  /\ IF formula' = "IndexError"
     THEN /\ naPc' = "raised"
          /\ naError' = "IndexError"
          /\ UNCHANGED <<elementsDict, correctionMatrix>>
     ELSE /\ elementsDict' = parseFormula(formula')
          /\ correctionMatrix' =
               computeCorrectionMatrix(elementsDict', atomTracer,
                                       NaturalAbundanceDistributions', purityTracer)
          /\ naError' = correctionMatrix'.error
          /\ naPc' = IF naError' = "none" THEN "built" ELSE "raised"
  /\ UNCHANGED <<entry, FAMES, CHOL, atomTracer, purityTracer, dataFrame, method,
                 naWarning, correctedData, matrixArgs, matrixResults>>

\* NAProcess.correctForNaturalAbundance(dataFrame, method)
correctForNaturalAbundance ==
  /\ naPc = "built"
  /\ \E df \in DataFrames, meth \in {"SMC", "LSC"} :
       LET matrix == computeCorrectionMatrix(elementsDict, atomTracer,
                                             NaturalAbundanceDistributions, purityTracer)
           nDataCols == Len(df[1])
           outcome == CorrectionOutcome(matrix, nDataCols)
       IN /\ dataFrame' = df
          /\ method' = meth
          /\ naWarning' = (matrix.nCols < nDataCols)
          /\ naError' = outcome
          /\ IF outcome = "none"
             THEN /\ correctedData' \in
                       [1..Len(df) -> [1..nDataCols -> CorrectedComponent(meth)]]
                  /\ naPc' = "returned"
             ELSE /\ correctedData' = <<>>
                  /\ naPc' = "raised"
  /\ UNCHANGED <<entry, FAMES, CHOL, atomTracer, purityTracer,
                 NaturalAbundanceDistributions, formula, elementsDict,
                 correctionMatrix, matrixArgs, matrixResults>>

\* Formula resolution and matrix construction over many ion names
InitFormula ==
  /\ entry \in EntryChoices
  /\ FAMES \in BOOLEAN
  /\ CHOL \in BOOLEAN
  /\ NAInitCommon
  /\ ClIdle
  /\ FitIdle
  /\ CtIdle
  /\ GuiIdle

NextFormula == NAProcessInit /\ UNCHANGED <<clVars, fitVars, ctVars, histVars, guiVars>>

SpecFormula == InitFormula /\ [][NextFormula]_vars

\* Correction of a cluster, the NAProcess built as the container builds it
\* (line 532: FAMES is left at its default)
InitCorrect ==
  /\ entry \in {MakeEntry(2, 0, TRUE), MakeEntry(16, 0, TRUE)}
  /\ FAMES = TRUE
  /\ CHOL \in BOOLEAN
  /\ NAInitCommon
  /\ ClIdle
  /\ FitIdle
  /\ CtIdle
  /\ GuiIdle

NextCorrect ==
  \/ NAProcessInit /\ UNCHANGED <<clVars, fitVars, ctVars, histVars, guiVars>>
  \/ correctForNaturalAbundance /\ UNCHANGED <<clVars, fitVars, ctVars, histVars, guiVars>>

SpecCorrect == InitCorrect /\ [][NextCorrect]_vars

\* Direct calls of computeCorrectionMatrix with the caller's own arguments.
\* The isotope weights are small integers (exact arithmetic, not normalised);
\* each element has as many isotopes as in the table of lines 94-109.
MaxAtoms == 2
MaxMatrixCalls == 2

SmallDistributions ==
  [H |-> <<2, 1>>, C |-> <<1, 2>>, N |-> <<1, 1>>, O |-> <<1, 1, 1>>,
   Si |-> <<1, 0, 1>>, S |-> <<1, 0, 1, 1>>]

SmallPurities == {<<0, 1>>, <<1, 2>>}

\* hydrogen, carbon and oxygen counts are free; the compounds of the program
\* hold no nitrogen or sulfur and at most one silicon, so these occur at most
\* once
Compositions ==
  {[H |-> h, C |-> c, N |-> n, O |-> o, Si |-> si, S |-> su] :
     h \in 0..MaxAtoms, c \in 0..MaxAtoms, o \in 0..MaxAtoms,
     n \in 0..1, si \in 0..1, su \in 0..1}

MatrixArgChoices ==
  [elementDict : Compositions, atomTracer : Elements,
   NADistributions : {SmallDistributions}, purityTracer : SmallPurities]

\* one call of computeCorrectionMatrix(elementDict, atomTracer,
\* NADistributions, purityTracer); line 158 raises ValueError when a column
\* does not have the m rows of the matrix of line 149
MatrixResult(shape, entries) ==
  [error |-> IF \E i \in 1..Len(entries.columns) : Len(entries.columns[i]) # shape.nRows
             THEN "ValueError" ELSE "none",
   nRows |-> shape.nRows,
   nCols |-> shape.nCols,
   sizeWarning |-> shape.sizeWarning,
   padded |-> shape.padded,
   vector |-> entries.vector,
   columns |-> entries.columns]

computeCorrectionMatrixCall ==
  /\ Len(matrixResults) < MaxMatrixCalls
  /\ \E shape \in {computeCorrectionMatrix(matrixArgs.elementDict, matrixArgs.atomTracer,
                                          matrixArgs.NADistributions, matrixArgs.purityTracer)},
        entries \in {correctionMatrixColumns(matrixArgs.elementDict, matrixArgs.atomTracer,
                                             matrixArgs.NADistributions, matrixArgs.purityTracer)} :
       matrixResults' = Append(matrixResults, MatrixResult(shape, entries))
  /\ UNCHANGED <<entry, FAMES, CHOL, atomTracer, purityTracer,
                 NaturalAbundanceDistributions, formula, elementsDict,
                 correctionMatrix, naPc, dataFrame, method, naWarning, naError,
                 correctedData, matrixArgs>>

InitMatrix ==
  /\ entry = <<>> /\ FAMES = TRUE /\ CHOL = FALSE /\ atomTracer = "H"
  /\ purityTracer = DefaultPurity /\ NaturalAbundanceDistributions = <<>>
  /\ formula = None /\ elementsDict = None /\ correctionMatrix = None
  /\ naPc = "idle" /\ dataFrame = <<>> /\ method = None /\ naWarning = FALSE
  /\ naError = "none" /\ correctedData = <<>>
  /\ matrixArgs \in MatrixArgChoices
  /\ matrixResults = <<>>
  /\ ClIdle
  /\ FitIdle
  /\ CtIdle
  /\ GuiIdle

NextMatrix == computeCorrectionMatrixCall /\ UNCHANGED <<clVars, fitVars, ctVars, histVars, guiVars>>

SpecMatrix == InitMatrix /\ [][NextMatrix]_vars

InitParse ==
  /\ entry = <<>> /\ FAMES = TRUE /\ CHOL = FALSE /\ atomTracer = "H"
  /\ purityTracer = DefaultPurity /\ NaturalAbundanceDistributions = <<>>
  /\ formula \in FormulaStrings /\ elementsDict = None /\ correctionMatrix = None
  /\ naPc = "string" /\ dataFrame = <<>> /\ method = None /\ naWarning = FALSE
  /\ naError = "none" /\ correctedData = <<>>
  /\ matrixArgs = <<>>
  /\ matrixResults = <<>>
  /\ ClIdle
  /\ FitIdle
  /\ CtIdle
  /\ GuiIdle

NextParse == parseFormulaCall /\ UNCHANGED <<clVars, fitVars, ctVars, histVars, guiVars>>

SpecParse == InitParse /\ [][NextParse]_vars

\* The correction of an observation made from a known abundance vector.
\* matrixArgs stands for the elementsDict, atomTracer,
\* NaturalAbundanceDistributions and purityTracer of the NAProcess.

\* the product of a matrix, given by its columns, with a vector
MatVec(columns, w) ==
  [i \in 1..Len(columns[1]) |->
     SumSeq([j \in 1..Len(columns) |-> columns[j][i] * w[j]])]

\* nothing above the diagonal, nothing missing on it
LowerTriangular(columns) ==
  \A j \in 1..Len(columns) :
    /\ Len(columns[j]) >= j
    /\ columns[j][j] # 0
    /\ \A i \in 1..(j - 1) : columns[j][i] = 0

\* acc - sum over j >= k of row[j] * x[j]
RECURSIVE SubtractProducts(_, _, _, _)
SubtractProducts(acc, row, x, k) ==
  IF k > Len(x) THEN acc
  ELSE SubtractProducts(RatSub(acc, RatMul(F(row[k]), x[k])), row, x, k + 1)

\* the value of e, computed once
Value(e) == CHOOSE y \in {e} : TRUE

\* np.linalg.pinv of a square matrix that can be inverted is its inverse;
\* applied to b for a lower triangular matrix, the solution x of M x = b,
\* component after component
RECURSIVE ForwardSubstitution(_, _, _)
ForwardSubstitution(columns, b, x) ==
  LET i == Len(x) + 1
  IN IF i > Len(columns) THEN x
     ELSE ForwardSubstitution(columns, b,
            Value(Append(x, RatDiv(SubtractProducts(b[i], [j \in 1..Len(x) |-> columns[j][i]], x, 1),
                                   F(columns[i][i])))))

\* abundances with sum 1: the weights w stand for the vector w / sum(w)
AbundanceWeights(n) == {w \in [1..n -> {0, 1}] : SumSeq(w) > 0}

Abundance(w) == [i \in 1..Len(w) |-> Rat(w[i], SumSeq(w))]

\* the observation M.v of the abundance vector v = w / sum(w)
Observation(columns, w) ==
  LET mw == Value(MatVec(columns, w)) IN [i \in 1..Len(mw) |-> Rat(mw[i], SumSeq(w))]

\* correctedData[correctedData<0] = 0, on a row
ClampRow(x) == [i \in 1..Len(x) |-> IF ClampNegative(x[i][1]) = 0 THEN F(0) ELSE x[i]]

\* correctForNaturalAbundance(dataFrame, "SMC") with a one-row dataFrame that
\* holds the observation of a known abundance vector; the matrix is computed
\* anew by the call (line 192).  The product with the pseudo-inverse is
\* computed for triangular matrices; for the others it is left open as in
\* CorrectedComponent.
correctObservationSMC ==
  /\ naPc = "idle"
  /\ \E shape \in {computeCorrectionMatrix(matrixArgs.elementDict, matrixArgs.atomTracer,
                                          matrixArgs.NADistributions, matrixArgs.purityTracer)},
        entries \in {correctionMatrixColumns(matrixArgs.elementDict, matrixArgs.atomTracer,
                                             matrixArgs.NADistributions, matrixArgs.purityTracer)} :
       \E w \in AbundanceWeights(shape.nCols) :
         \E observed \in {Observation(entries.columns, w)} :
           \E outcome \in {CorrectionOutcome(shape, Len(observed))} :
             /\ matrixResults' = Append(matrixResults, MatrixResult(shape, entries))
             /\ dataFrame' = <<observed>>
             /\ method' = "SMC"
             /\ naWarning' = (shape.nCols < Len(observed))
             /\ naError' = outcome
             /\ IF outcome # "none"
                THEN /\ correctedData' = <<>>
                     /\ naPc' = "raised"
                ELSE /\ naPc' = "returned"
                     /\ IF LowerTriangular(entries.columns)
                        THEN correctedData' =
                               <<ClampRow(Value(ForwardSubstitution(entries.columns, observed, <<>>)))>>
                        ELSE correctedData' \in
                               {<<x>> : x \in [1..shape.nCols ->
                                                {F(c) : c \in CorrectedComponent("SMC")}]}
  /\ UNCHANGED <<entry, FAMES, CHOL, atomTracer, purityTracer,
                 NaturalAbundanceDistributions, formula, elementsDict,
                 correctionMatrix, matrixArgs>>

NextRoundTrip == correctObservationSMC /\ UNCHANGED <<clVars, fitVars, ctVars, histVars, guiVars>>

SpecRoundTrip == InitMatrix /\ [][NextRoundTrip]_vars

(***************************************************************************)
(* Inputs of the cluster-resolution specifications                         *)
(***************************************************************************)
MaxCols == 5

\* the descriptions "160", "180", "181" as the column names encode them
DescriptionChoices == { <<"1", "6", "0">>, <<"1", "8", "0">>, <<"1", "8", "1">> }

ColumnLists(masses, descriptions) ==
  UNION {[1..n -> [mass : masses, description : descriptions]] : n \in 1..MaxCols}

ClInitCommon ==
  /\ letter \in {"F", "C"}
  /\ cholesterol = FALSE
  /\ experimentType = None
  /\ finalGroups = <<>>
  /\ orderedIdx = <<>>
  /\ dataColNames = <<>>
  /\ internalRefList = <<>>
  /\ dataDfCols = <<>>
  /\ clPc = "new"

\* Column lists of several descriptions, few masses
InitLabeled ==
  /\ ionsDetected \in ColumnLists({100, 101}, DescriptionChoices)
  /\ ClInitCommon
  /\ NAIdle
  /\ FitIdle
  /\ CtIdle
  /\ GuiIdle

NextLabeled == computeFileAttributes /\ UNCHANGED <<naVars, fitVars, ctVars, histVars, guiVars>>

SpecLabeled == InitLabeled /\ [][NextLabeled]_vars

\* Column lists of one description, masses with and without gaps
InitCluster ==
  /\ ionsDetected \in ColumnLists({100, 101, 102, 105, 106}, { <<"1", "6", "0">> })
  /\ ClInitCommon
  /\ NAIdle
  /\ FitIdle
  /\ CtIdle
  /\ GuiIdle

NextCluster == computeFileAttributes /\ UNCHANGED <<naVars, fitVars, ctVars, histVars, guiVars>>

SpecCluster == InitCluster /\ [][NextCluster]_vars

(***************************************************************************)
(* Inputs of the standard-curve specification                              *)
(***************************************************************************)
\* number of standards (rows of standardDf_nMoles and of the standard signals)
MaxStd == 3

\* "C16:0 (270)", the parental ion, and "C16:0 (275)", a heavier cluster
Ion270 == MakeEntry(16, 0, TRUE)

Ion275 == SubSeq(Ion270, 1, Len(Ion270) - 2) \o <<"5", ")">>

\* the quantities of one standard column: standard i holds i nMoles or nothing
QuantityChoices == [1..MaxStd -> {0, 1}]

\* the signals of one data column over the standards: missing, zero, or on
\* the line of slope 2 and intercept 3 (the heavier cluster's signals are
\* on the line of slope 4 and intercept 1)
SignalChoices == [1..MaxStd -> {0, 1, 2}]

Quantities(c) == [i \in 1..MaxStd |-> IF c[i] = 1 THEN F(i) ELSE NaN]

Signals(c) ==
  [i \in 1..MaxStd |-> IF c[i] = 0 THEN NaN ELSE IF c[i] = 1 THEN F(0) ELSE F(2 * i + 3)]

InitFits ==
  /\ \E q \in QuantityChoices, own \in BOOLEAN :
       standardDf_nMoles =
         <<[name |-> Ion270, values |-> Quantities(q)]>>
         \o (IF own THEN <<[name |-> Ion275, values |-> [i \in 1..MaxStd |-> F(i)]]>>
             ELSE <<>>)
  /\ \E y \in SignalChoices, firstMissing \in BOOLEAN, sample \in {NaN, F(13)} :
       dataDf_norm =
         <<[name |-> Ion270, standards |-> Signals(y), sample |-> sample],
           [name |-> Ion275,
            standards |-> [i \in 1..MaxStd |->
                             IF i = 1 /\ firstMissing THEN NaN ELSE F(4 * i + 1)],
            sample |-> F(13)]>>
  /\ maskFAMES = <<>>
  /\ standardDf_fitResults = <<>>
  /\ dataDf_quantification = <<>>
  /\ normalization = <<>>
  /\ fitPc = "new"
  /\ NAIdle
  /\ ClIdle
  /\ CtIdle
  /\ GuiIdle

NextFits ==
  \/ \E useMask \in BOOLEAN : computeStandardFits(useMask) /\ UNCHANGED <<naVars, clVars, ctVars, histVars, guiVars>>
  \/ \E useMask \in BOOLEAN :
       computeQuantificationFromStandardFits(useMask) /\ UNCHANGED <<naVars, clVars, ctVars, histVars, guiVars>>

SpecFits == InitFits /\ [][NextFits]_vars

\* The inspector on the same tables: both ions have a standard column, and
\* no signal of the first ion is missing (it is zero or on the line)
InitInspector ==
  /\ \E q \in QuantityChoices :
       standardDf_nMoles =
         <<[name |-> Ion270, values |-> Quantities(q)],
           [name |-> Ion275, values |-> [i \in 1..MaxStd |-> F(i)]]>>
  /\ \E y \in [1..MaxStd -> {1, 2}], firstMissing \in BOOLEAN :
       dataDf_norm =
         <<[name |-> Ion270, standards |-> Signals(y), sample |-> F(13)],
           [name |-> Ion275,
            standards |-> [i \in 1..MaxStd |->
                             IF i = 1 /\ firstMissing THEN NaN ELSE F(4 * i + 1)],
            sample |-> F(13)]>>
  /\ maskFAMES = <<>>
  /\ standardDf_fitResults = <<>>
  /\ dataDf_quantification = <<>>
  /\ normalization = <<>>
  /\ fitPc = "new"
  /\ FAMESselected = <<>> /\ currentFAMESidx = 0 /\ pointsListbox = {}
  /\ inspectorPc = "closed"
  /\ NAIdle
  /\ ClIdle
  /\ CtIdle

NextInspector ==
  \/ computeResults /\ UNCHANGED <<naVars, clVars, ctVars, histVars>>
  \/ \E chosen \in SUBSET {Ion270, Ion275} :
       modifySelection(chosen) /\ UNCHANGED <<naVars, clVars, ctVars, histVars>>
  \/ \E p \in 0..(MaxStd - 1) :
       updateSelection(p) /\ UNCHANGED <<naVars, clVars, ctVars, histVars>>
  \/ \E direction \in {1, -1} :
       goToNextPlot(direction) /\ UNCHANGED <<naVars, clVars, ctVars, histVars>>

SpecInspector == InitInspector /\ [][NextInspector]_vars

\* Standard tables of several columns per chain, for data columns without a
\* standard column of their own
IonColumn(chain, mass) == chain \o <<" ", "(">> \o IntToStr(mass) \o <<")">>

Chain160 == <<"C", "1", "6", ":", "0">>

Chain180 == <<"C", "1", "8", ":", "0">>

\* the standard columns there may be, by ascending mass; the quantities of
\* the k-th are multiples of k, so that a fit tells the column it was made
\* against.  The fourth has a chain code that only begins like C16:0.
StandardChoices ==
  <<IonColumn(Chain160, 265), IonColumn(Chain160, 270), IonColumn(Chain160, 275),
    IonColumn(Chain160 \o <<"d">>, 301), IonColumn(Chain180, 298)>>

StandardColumn(k) ==
  [name |-> StandardChoices[k], values |-> [i \in 1..MaxStd |-> F(k * i)]]

\* the chosen columns, in ascending or descending order
StandardTable(present, descending) ==
  LET n == Len(StandardChoices)
      order == [i \in 1..n |-> IF descending THEN n + 1 - i ELSE i]
      kept == SelectSeq(order, LAMBDA k : k \in present)
  IN [i \in 1..Len(kept) |-> StandardColumn(kept[i])]

InitBorrow ==
  /\ \E present \in SUBSET (1..Len(StandardChoices)), descending \in BOOLEAN :
       standardDf_nMoles = StandardTable(present, descending)
  /\ \E few \in BOOLEAN :
       dataDf_norm =
         <<[name |-> IonColumn(Chain160, 275),
            standards |-> [i \in 1..MaxStd |->
                             IF few /\ i > 1 THEN NaN ELSE F(2 * i + 3)],
            sample |-> F(13)],
           [name |-> IonColumn(Chain180, 299),
            standards |-> [i \in 1..MaxStd |-> F(2 * i + 3)],
            sample |-> F(13)]>>
  /\ maskFAMES = <<>>
  /\ standardDf_fitResults = <<>>
  /\ dataDf_quantification = <<>>
  /\ normalization = <<>>
  /\ fitPc = "new"
  /\ NAIdle
  /\ ClIdle
  /\ CtIdle
  /\ GuiIdle

SpecBorrow == InitBorrow /\ [][NextFits]_vars

(***************************************************************************)
(* MSDataContainer: parameters, mutators, derived views and the debounced  *)
(* natural-abundance correction                                            *)
(***************************************************************************)
\* mutator calls in one behaviour
MaxCalls == 2

\* the locals of a timer thread that is not inside the body
NoLocals == [pc |-> "none", k |-> 0, ionNA |-> <<>>, correctedData |-> <<>>]

\* s contains t: DataFrame.filter(like=t) keeps the columns whose name does
Contains(s, t) ==
  \E i \in 1..(Len(s) - Len(t) + 1) : SubSeq(s, i, i + Len(t) - 1) = t

\* self.dataDf.filter(like=parentalIon).shape[1]
ClusterWidth(parentalIon) ==
  Len(SelectSeq(dataDfCols, LAMBDA c : Contains(c, parentalIon)))

\* Timer.cancel() without effect
Cancel_ignored(state) == state

\* Timer.cancel(): a timer still waiting will not call its function; one that
\* has fired is not affected
Cancel(state) == IF state = "waiting" THEN "cancelled" ELSE state

\* self.numberOfSamples: the sample rows of the data file
numberOfSamples == 2

\* the rest of MSDataContainer.__init__ once _computeFileAttributes returned
MSDataContainerInit ==
  /\ ctPc = "new" /\ clPc = "done"
  /\ internalRef' = <<"C", "1", "9", ":", "0">>
  /\ tracer' = "H"
  /\ tracerPurity' = DefaultPurity
  /\ NACMethod' = "LSC"
  /\ volumeMixTotal' = 500
  /\ volumeMixForPrep' = 100
  /\ volumeStandards' = <<1, 5, 10, 20, 40, 80>>
  /\ standardDf_nMoles' = <<[volumeMixForPrep |-> volumeMixForPrep',
                             volumeMixTotal |-> volumeMixTotal',
                             volumeStandards |-> volumeStandards']>>
  /\ volumesOfDilution' = [i \in 1..numberOfSamples |-> 750]
  /\ volumesOfSampleSoupUsed' = [i \in 1..numberOfSamples |-> 5]
  /\ weightNormalization' = FALSE
  /\ ctPc' = "ready"
  /\ UNCHANGED <<dataDf_corrected, dataDf_labeledProportions, timers, debouncedT,
                 threads, nCalls, dataDf_norm, maskFAMES,
                 standardDf_fitResults, dataDf_quantification, normalization, fitPc>>
  /\ UNCHANGED <<naVars, clVars, histVars, guiVars>>

\* a call of the debounced computeNACorrectionDf (lines 29-38), the parameters
\* being newTracer, newPurity, newMethod when it returns
computeNACorrectionDf(newTracer, newPurity, newMethod) ==
  /\ timers' = Append(IF debouncedT = 0 THEN timers
                      ELSE [timers EXCEPT ![debouncedT] = Cancel(@)],
                      "waiting")
  /\ debouncedT' = Len(timers) + 1
  /\ threads' = Append(threads, NoLocals)
  /\ callParams' = Append(callParams, <<newTracer, newPurity, newMethod>>)
  /\ superseded' = Append(IF debouncedT = 0 THEN superseded
                          ELSE [superseded EXCEPT
                                  ![debouncedT] = (timers[debouncedT] = "waiting")],
                          FALSE)
  /\ bodyStarts' = Append(bodyStarts, 0)
  /\ reads' = Append(reads, <<>>)

updateTracer(newTracer) ==
  /\ ctPc = "ready" /\ nCalls < MaxCalls
  /\ tracer' = newTracer
  /\ computeNACorrectionDf(newTracer, tracerPurity, NACMethod)
  /\ nCalls' = nCalls + 1
  /\ UNCHANGED <<internalRef, tracerPurity, NACMethod, volumeMixTotal,
                 volumeMixForPrep, volumeStandards, volumesOfDilution,
                 volumesOfSampleSoupUsed, weightNormalization, dataDf_corrected,
                 dataDf_labeledProportions, ctPc>>
  /\ UNCHANGED <<naVars, clVars, fitVars, guiVars>>

updateTracerPurity(newPurity) ==
  /\ ctPc = "ready" /\ nCalls < MaxCalls
  /\ tracerPurity' = newPurity
  /\ computeNACorrectionDf(tracer, newPurity, NACMethod)
  /\ nCalls' = nCalls + 1
  /\ UNCHANGED <<internalRef, tracer, NACMethod, volumeMixTotal,
                 volumeMixForPrep, volumeStandards, volumesOfDilution,
                 volumesOfSampleSoupUsed, weightNormalization, dataDf_corrected,
                 dataDf_labeledProportions, ctPc>>
  /\ UNCHANGED <<naVars, clVars, fitVars, guiVars>>

updateNACMethod(newMethod) ==
  /\ ctPc = "ready" /\ nCalls < MaxCalls
  /\ NACMethod' = newMethod
  /\ computeNACorrectionDf(tracer, tracerPurity, newMethod)
  /\ nCalls' = nCalls + 1
  /\ UNCHANGED <<internalRef, tracer, tracerPurity, volumeMixTotal,
                 volumeMixForPrep, volumeStandards, volumesOfDilution,
                 volumesOfSampleSoupUsed, weightNormalization, dataDf_corrected,
                 dataDf_labeledProportions, ctPc>>
  /\ UNCHANGED <<naVars, clVars, fitVars, guiVars>>

\* updateInternalRef: computeNormalizedData divides by the column of the
\* reference, which is one of internalRefList in the labeled case
updateInternalRef(newInternalRef) ==
  /\ ctPc = "ready" /\ nCalls < MaxCalls
  /\ internalRef' = newInternalRef
  /\ dataDf_norm' = <<[internalRef |-> newInternalRef]>>
  /\ nCalls' = nCalls + 1
  /\ UNCHANGED <<tracer, tracerPurity, NACMethod, volumeMixTotal,
                 volumeMixForPrep, volumeStandards, volumesOfDilution,
                 volumesOfSampleSoupUsed, weightNormalization, dataDf_corrected,
                 dataDf_labeledProportions, timers, debouncedT, threads, ctPc>>
  /\ UNCHANGED <<standardDf_nMoles, maskFAMES, standardDf_fitResults,
                 dataDf_quantification, normalization, fitPc>>
  /\ UNCHANGED <<naVars, clVars, histVars, guiVars>>

updateStandards(newVolumeMixForPrep, newVolumeMixTotal, newVolumeStandards) ==
  /\ ctPc = "ready" /\ nCalls < MaxCalls
  /\ volumeMixForPrep' = newVolumeMixForPrep
  /\ volumeMixTotal' = newVolumeMixTotal
  /\ volumeStandards' = newVolumeStandards
  /\ standardDf_nMoles' = <<[volumeMixForPrep |-> newVolumeMixForPrep,
                             volumeMixTotal |-> newVolumeMixTotal,
                             volumeStandards |-> newVolumeStandards]>>
  /\ nCalls' = nCalls + 1
  /\ UNCHANGED <<internalRef, tracer, tracerPurity, NACMethod, volumesOfDilution,
                 volumesOfSampleSoupUsed, weightNormalization, dataDf_corrected,
                 dataDf_labeledProportions, timers, debouncedT, threads, ctPc>>
  /\ UNCHANGED <<dataDf_norm, maskFAMES, standardDf_fitResults,
                 dataDf_quantification, normalization, fitPc>>
  /\ UNCHANGED <<naVars, clVars, histVars, guiVars>>

updateVolumesOfSampleDilution(newVolumeOfDilution, newVolumeOfSampleUsed, useValueDilution, useValueSample) ==
  /\ ctPc = "ready" /\ nCalls < MaxCalls
  /\ volumesOfDilution' = IF useValueDilution
                          THEN [i \in 1..numberOfSamples |-> newVolumeOfDilution]
                          ELSE volumesOfDilution
  /\ volumesOfSampleSoupUsed' = IF useValueSample
                                THEN [i \in 1..numberOfSamples |-> newVolumeOfSampleUsed]
                                ELSE volumesOfSampleSoupUsed
  /\ nCalls' = nCalls + 1
  /\ UNCHANGED <<internalRef, tracer, tracerPurity, NACMethod, volumeMixTotal,
                 volumeMixForPrep, volumeStandards, weightNormalization,
                 dataDf_corrected, dataDf_labeledProportions, timers, debouncedT,
                 threads, ctPc>>
  /\ UNCHANGED <<naVars, clVars, fitVars, histVars, guiVars>>

updateNormalizationType(newType) ==
  /\ ctPc = "ready" /\ nCalls < MaxCalls
  /\ weightNormalization' = newType
  /\ nCalls' = nCalls + 1
  /\ UNCHANGED <<internalRef, tracer, tracerPurity, NACMethod, volumeMixTotal,
                 volumeMixForPrep, volumeStandards, volumesOfDilution,
                 volumesOfSampleSoupUsed, dataDf_corrected,
                 dataDf_labeledProportions, timers, debouncedT, threads, ctPc>>
  /\ UNCHANGED <<naVars, clVars, fitVars, histVars, guiVars>>

\* what a timer thread leaves alone
ThreadUnchanged ==
  /\ UNCHANGED <<internalRef, tracer, tracerPurity, NACMethod, volumeMixTotal,
                 volumeMixForPrep, volumeStandards, volumesOfDilution,
                 volumesOfSampleSoupUsed, weightNormalization, debouncedT, ctPc,
                 nCalls>>
  /\ UNCHANGED <<naVars, clVars, fitVars, callParams, superseded, guiVars>>

\* Timer.run: the wait is over and the timer was not cancelled; call_it
\* enters computeNACorrectionDf and the loop of correctForNaturalAbundance
TimerFires(i) ==
  /\ timers[i] = "waiting"
  /\ timers' = [timers EXCEPT ![i] = "running"]
  /\ threads' = [threads EXCEPT ![i] =
                   [pc |-> IF Len(internalRefList) = 0 THEN "assign" ELSE "construct",
                    k |-> 1, ionNA |-> <<>>, correctedData |-> <<>>]]
  /\ bodyStarts' = [bodyStarts EXCEPT ![i] = @ + 1]
  /\ UNCHANGED <<dataDf_corrected, dataDf_labeledProportions, reads>>
  /\ ThreadUnchanged

\* where the loop of lines 525-534 goes after cluster k
AfterCluster(k) == IF k + 1 > Len(internalRefList) THEN "assign" ELSE "construct"

\* the exception NAProcess.__init__ leaves with, or "none"
ConstructionOutcome(parentalIon, newTracer, newPurity) ==
  LET f == getFAFormulaString(parentalIon, TRUE, cholesterol)
  IN IF f = "IndexError" THEN "IndexError"
     ELSE computeCorrectionMatrix(parseFormula(f), newTracer,
                                  getNaturalAbundanceDistributions, newPurity).error

\* the exception NAProcess.correctForNaturalAbundance leaves with, or "none"
ClusterOutcome(parentalIon, ionNA) ==
  CorrectionOutcome(
    computeCorrectionMatrix(parseFormula(getFAFormulaString(parentalIon, TRUE, cholesterol)),
                            ionNA[1], getNaturalAbundanceDistributions, ionNA[2]),
    ClusterWidth(parentalIon))

\* lines 526-532 for cluster k: a cluster of one column is copied, for any
\* other an NAProcess is built from self.tracer and self.tracerPurity
ClusterConstruct(i) ==
  /\ timers[i] = "running" /\ threads[i].pc = "construct"
  /\ LET k == threads[i].k
         parentalIon == internalRefList[k]
     IN IF ClusterWidth(parentalIon) <= 1
        THEN /\ threads' = [threads EXCEPT ![i] =
                  [@ EXCEPT !.pc = AfterCluster(k), !.k = k + 1,
                            !.correctedData = Append(@, <<>>)]]
             /\ UNCHANGED <<timers, reads>>
        ELSE /\ reads' = [reads EXCEPT ![i] =
                  Append(@, [values |-> <<tracer, tracerPurity>>,
                             latest |-> debouncedT = i])]
             /\ IF ConstructionOutcome(parentalIon, tracer, tracerPurity) = "none"
                THEN /\ threads' = [threads EXCEPT ![i] =
                          [@ EXCEPT !.pc = "correct", !.ionNA = <<tracer, tracerPurity>>]]
                     /\ UNCHANGED timers
                ELSE /\ timers' = [timers EXCEPT ![i] = "raised"]
                     /\ threads' = [threads EXCEPT ![i] = NoLocals]
  /\ UNCHANGED <<dataDf_corrected, dataDf_labeledProportions, bodyStarts>>
  /\ ThreadUnchanged

\* line 533 for cluster k: the cluster is corrected with self.NACMethod
ClusterCorrect(i) ==
  /\ timers[i] = "running" /\ threads[i].pc = "correct"
  /\ LET k == threads[i].k
         ionNA == threads[i].ionNA
     IN /\ reads' = [reads EXCEPT ![i] =
               Append(@, [values |-> <<NACMethod>>, latest |-> debouncedT = i])]
        /\ IF ClusterOutcome(internalRefList[k], ionNA) = "none"
           THEN /\ threads' = [threads EXCEPT ![i] =
                     [@ EXCEPT !.pc = AfterCluster(k), !.k = k + 1, !.ionNA = <<>>,
                               !.correctedData =
                                  Append(@, <<ionNA[1], ionNA[2], NACMethod>>)]]
                /\ UNCHANGED timers
           ELSE /\ timers' = [timers EXCEPT ![i] = "raised"]
                /\ threads' = [threads EXCEPT ![i] = NoLocals]
  /\ UNCHANGED <<dataDf_corrected, dataDf_labeledProportions, bodyStarts>>
  /\ ThreadUnchanged

\* line 507: self.dataDf_corrected = the table the loop built
AssignCorrected(i) ==
  /\ timers[i] = "running" /\ threads[i].pc = "assign"
  /\ dataDf_corrected' = <<threads[i].correctedData>>
  /\ threads' = [threads EXCEPT ![i] = [@ EXCEPT !.pc = "proportions"]]
  /\ UNCHANGED <<dataDf_labeledProportions, timers, bodyStarts, reads>>
  /\ ThreadUnchanged

\* line 508: the proportions are computed from self.dataDf_corrected as it is
\* now, and the thread ends
AssignLabeledProportions(i) ==
  /\ timers[i] = "running" /\ threads[i].pc = "proportions"
  /\ dataDf_labeledProportions' = dataDf_corrected
  /\ timers' = [timers EXCEPT ![i] = "finished"]
  /\ threads' = [threads EXCEPT ![i] = NoLocals]
  /\ UNCHANGED <<dataDf_corrected, bodyStarts, reads>>
  /\ ThreadUnchanged

\* saveStandardCurvesAndResults(useMask): the fits and the quantification are
\* computed from dataDf_norm and standardDf_nMoles as they are now; a view
\* that does not exist yet ends the call with an AttributeError, before the
\* fits when it is dataDf_norm or the masks, after them when it is the
\* labeled proportions
saveStandardCurvesAndResults(useMask) ==
  /\ ctPc = "ready"
  /\ IF dataDf_norm = <<>> \/ (useMask /\ maskFAMES = <<>>)
     THEN UNCHANGED <<maskFAMES, standardDf_fitResults, dataDf_quantification>>
     ELSE /\ maskFAMES' = IF useMask THEN maskFAMES
                          ELSE <<[norm |-> dataDf_norm[1], nMoles |-> standardDf_nMoles[1]]>>
          /\ standardDf_fitResults' =
               <<[norm |-> dataDf_norm[1], nMoles |-> standardDf_nMoles[1]]>>
          /\ dataDf_quantification' =
               <<[norm |-> dataDf_norm[1], nMoles |-> standardDf_nMoles[1]]>>
  /\ UNCHANGED <<internalRef, tracer, tracerPurity, NACMethod, volumeMixTotal,
                 volumeMixForPrep, volumeStandards, volumesOfDilution,
                 volumesOfSampleSoupUsed, weightNormalization, dataDf_corrected,
                 dataDf_labeledProportions, timers, debouncedT, threads, ctPc, nCalls>>
  /\ UNCHANGED <<standardDf_nMoles, dataDf_norm, normalization, fitPc>>
  /\ UNCHANGED <<naVars, clVars, histVars, guiVars>>

\* what the interface offers: the tracers of the combobox (line 1019), two
\* purities, the two methods, the parental ions as references, two sets of
\* standards, two pairs of volumes
TracerChoices == {"C", "H", "O"}

PurityChoices == {DefaultPurity, <<PPM \div 100, PPM - PPM \div 100>>}

StandardsChoices ==
  { <<100, 500, <<1, 5, 10, 20, 40, 80>> >>, <<244, 250, <<1, 5, 10, 20>> >> }

VolumeChoices == { <<750, 5, TRUE, TRUE>>, <<500, 10, TRUE, FALSE>> }

\* a labeled experiment of two clusters, C16:0 of three ions and C18:0 of two
Init ==
  /\ ionsDetected = <<[mass |-> 270, description |-> <<"1", "6", "0">>],
                      [mass |-> 271, description |-> <<"1", "6", "0">>],
                      [mass |-> 272, description |-> <<"1", "6", "0">>],
                      [mass |-> 298, description |-> <<"1", "8", "0">>],
                      [mass |-> 299, description |-> <<"1", "8", "0">>]>>
  /\ letter = "F"
  /\ ClInitCommon
  /\ NAIdle
  /\ FitIdle
  /\ GuiIdle
  /\ internalRef = None /\ tracer = None /\ tracerPurity = <<>> /\ NACMethod = None
  /\ volumeMixTotal = 0 /\ volumeMixForPrep = 0 /\ volumeStandards = <<>>
  /\ volumesOfDilution = <<>> /\ volumesOfSampleSoupUsed = <<>>
  /\ weightNormalization = FALSE /\ dataDf_corrected = <<>>
  /\ dataDf_labeledProportions = <<>> /\ timers = <<>> /\ debouncedT = 0
  /\ threads = <<>> /\ ctPc = "new" /\ nCalls = 0
  /\ callParams = <<>> /\ superseded = <<>> /\ bodyStarts = <<>> /\ reads = <<>>

Next ==
  \/ computeFileAttributes /\ UNCHANGED <<naVars, fitVars, ctVars, histVars, guiVars>>
  \/ MSDataContainerInit
  \/ \E newTracer \in TracerChoices : updateTracer(newTracer)
  \/ \E newPurity \in PurityChoices : updateTracerPurity(newPurity)
  \/ \E newMethod \in {"LSC", "SMC"} : updateNACMethod(newMethod)
  \/ \E newInternalRef \in Range(internalRefList) : updateInternalRef(newInternalRef)
  \/ \E st \in StandardsChoices : updateStandards(st[1], st[2], st[3])
  \/ \E v \in VolumeChoices : updateVolumesOfSampleDilution(v[1], v[2], v[3], v[4])
  \/ \E newType \in BOOLEAN : updateNormalizationType(newType)
  \/ \E useMask \in BOOLEAN : saveStandardCurvesAndResults(useMask)
  \/ \E i \in 1..Len(timers) : TimerFires(i)
  \/ \E i \in 1..Len(timers) : ClusterConstruct(i)
  \/ \E i \in 1..Len(timers) : ClusterCorrect(i)
  \/ \E i \in 1..Len(timers) : AssignCorrected(i)
  \/ \E i \in 1..Len(timers) : AssignLabeledProportions(i)

Spec == Init /\ [][Next]_vars

(***************************************************************************)
(* MSDataContainer: the normalization factors                              *)
(***************************************************************************)
\* SampleName.str.match('^(?!neg|S\d+$)', na=False): a name that does not
\* begin with neg and is not S followed by digits only; a missing name is no
\* sample
IsSampleName(name) ==
  /\ name # NaN
  /\ ~StartsWith(name, <<"n", "e", "g">>)
  /\ ~(/\ Len(name) >= 2
       /\ name[1] = "S"
       /\ \A i \in 2..Len(name) : IsDigit(name[i]))

\* how many sample rows there are up to row r
SampleRank(rows, r) == Cardinality({q \in 1..r : IsSampleName(rows[q].SampleName)})

\* the volumes of the first sample used for all
NormalizationArray_firstVolumes(rows, weightOnly, dilution, soup) ==
  [r \in 1..Len(rows) |->
     IF weightOnly THEN F(rows[r].SampleWeight)
     ELSE IF IsSampleName(rows[r].SampleName)
     THEN Rat(soup[1] * rows[r].SampleWeight, dilution[1] + rows[r].SampleWeight)
     ELSE F(1)]

\* getNormalizationArray on the rows of dataDf_norm: the weights as they are,
\* or ones (line 705) with, on the sample rows, in their order,
\* volumesOfSampleSoupUsed*samplesWeights/(volumesOfDilution+samplesWeights)
NormalizationArray(rows, weightOnly, dilution, soup) ==
  [r \in 1..Len(rows) |->
     IF weightOnly THEN F(rows[r].SampleWeight)
     ELSE IF IsSampleName(rows[r].SampleName)
     THEN Rat(soup[SampleRank(rows, r)] * rows[r].SampleWeight,
              dilution[SampleRank(rows, r)] + rows[r].SampleWeight)
     ELSE F(1)]

getNormalizationArray ==
  /\ ctPc = "ready"
  /\ normalization' = NormalizationArray(dataDf_norm, weightNormalization,
                                         volumesOfDilution, volumesOfSampleSoupUsed)
  /\ UNCHANGED <<standardDf_nMoles, dataDf_norm, maskFAMES, standardDf_fitResults,
                 dataDf_quantification, fitPc>>
  /\ UNCHANGED <<naVars, clVars, ctVars, histVars, guiVars>>

\* the volumes a template column may declare, sample by sample
TemplateVolumes == {<<750, 500>>, <<5, 10>>}

\* np.nan in a column of volumes: a number that no volume is (the volumes are
\* integers here, and none is negative)
MissingVolume == -1

\* the assertions of lines 484 and 489: as many volumes that are not missing
\* as declared samples; values holds one entry per declared sample
VolumesComplete(values) == \A i \in 1..Len(values) : values[i] # MissingVolume

\* updateVolumeOfDilutionFromTemplateFile(columnName, activated, variable):
\* values is what the column holds for the declared samples; not activated,
\* or another variable, is a call of updateVolumesOfSampleDilution with the
\* backup values.  The list is assigned (lines 482, 487) before the assertion
\* is made; ctPc is "AssertionError" after a call that raised it.
updateVolumeOfDilutionFromTemplateFile(values, activated, variable) ==
  IF variable = "dilution" /\ activated
  THEN /\ ctPc \in {"ready", "AssertionError"} /\ nCalls < MaxCalls
       /\ volumesOfDilution' = values
       /\ ctPc' = IF VolumesComplete(values) THEN "ready" ELSE "AssertionError"
       /\ nCalls' = nCalls + 1
       /\ UNCHANGED <<internalRef, tracer, tracerPurity, NACMethod, volumeMixTotal,
                      volumeMixForPrep, volumeStandards, volumesOfSampleSoupUsed,
                      weightNormalization, dataDf_corrected,
                      dataDf_labeledProportions, timers, debouncedT, threads>>
       /\ UNCHANGED <<naVars, clVars, fitVars, histVars, guiVars>>
  ELSE IF variable = "sample" /\ activated
  THEN /\ ctPc \in {"ready", "AssertionError"} /\ nCalls < MaxCalls
       /\ volumesOfSampleSoupUsed' = values
       /\ ctPc' = IF VolumesComplete(values) THEN "ready" ELSE "AssertionError"
       /\ nCalls' = nCalls + 1
       /\ UNCHANGED <<internalRef, tracer, tracerPurity, NACMethod, volumeMixTotal,
                      volumeMixForPrep, volumeStandards, volumesOfDilution,
                      weightNormalization, dataDf_corrected,
                      dataDf_labeledProportions, timers, debouncedT, threads>>
       /\ UNCHANGED <<naVars, clVars, fitVars, histVars, guiVars>>
  ELSE updateVolumesOfSampleDilution(750, 5, TRUE, TRUE)

\* the rows of the table: two samples and one standard or negative control,
\* in any order, with their declared weights
WeightChoices == {1, 250}

RowNames ==
  {<< <<"A", "1">>, <<"S", "a">>, other >> : other \in {<<"S", "1">>, <<"n", "e", "g">>}}
  \cup {<< <<"A", "1">>, other, <<"S", "a">> >> : other \in {<<"S", "1">>, <<"n", "e", "g">>}}
  \cup {<< other, <<"A", "1">>, <<"S", "a">> >> : other \in {<<"S", "1">>, <<"n", "e", "g">>}}

\* the container as __init__ leaves it, on a table of rows
InitNormalization ==
  /\ \E names \in RowNames, weights \in [1..3 -> WeightChoices] :
       dataDf_norm = [r \in 1..3 |-> [SampleName |-> names[r], SampleWeight |-> weights[r]]]
  /\ standardDf_nMoles = <<>> /\ maskFAMES = <<>> /\ standardDf_fitResults = <<>>
  /\ dataDf_quantification = <<>> /\ normalization = <<>> /\ fitPc = "idle"
  /\ internalRef = <<"C", "1", "9", ":", "0">> /\ tracer = "H"
  /\ tracerPurity = DefaultPurity /\ NACMethod = "LSC"
  /\ volumeMixTotal = 500 /\ volumeMixForPrep = 100
  /\ volumeStandards = <<1, 5, 10, 20, 40, 80>>
  /\ volumesOfDilution = [i \in 1..numberOfSamples |-> 750]
  /\ volumesOfSampleSoupUsed = [i \in 1..numberOfSamples |-> 5]
  /\ weightNormalization = FALSE
  /\ dataDf_corrected = <<>> /\ dataDf_labeledProportions = <<>>
  /\ timers = <<>> /\ debouncedT = 0 /\ threads = <<>> /\ ctPc = "ready" /\ nCalls = 0
  /\ callParams = <<>> /\ superseded = <<>> /\ bodyStarts = <<>> /\ reads = <<>>
  /\ NAIdle
  /\ ClIdle
  /\ GuiIdle

NextNormalization ==
  \/ \E v \in VolumeChoices : updateVolumesOfSampleDilution(v[1], v[2], v[3], v[4])
  \/ \E values \in TemplateVolumes, activated \in BOOLEAN, variable \in {"dilution", "sample"} :
       updateVolumeOfDilutionFromTemplateFile(values, activated, variable)
  \/ \E newType \in BOOLEAN : updateNormalizationType(newType)
  \/ getNormalizationArray

SpecNormalization == InitNormalization /\ [][NextNormalization]_vars

\* Template columns in which a declared sample may have no volume
TemplateColumns == [1..numberOfSamples -> {5, 750, MissingVolume}]

NextTemplate ==
  \/ \E v \in VolumeChoices : updateVolumesOfSampleDilution(v[1], v[2], v[3], v[4])
  \/ \E values \in TemplateColumns, activated \in BOOLEAN, variable \in {"dilution", "sample"} :
       updateVolumeOfDilutionFromTemplateFile(values, activated, variable)

SpecTemplate == InitNormalization /\ [][NextTemplate]_vars

(***************************************************************************)
(* MSDataContainer: labeled proportions on tables of numbers               *)
(***************************************************************************)
MaxWidth == 3

\* n columns of one description, masses m0, m0 + 1, ...
Block(d, m0, n) == [i \in 1..n |-> [mass |-> m0 + i - 1, description |-> d]]

\* two runs of columns: of two descriptions, or of one description with the
\* masses overlapping or apart; the first run may be longer by the two
\* columns that a cholesterol experiment drops
ProportionColumns ==
  {Block(d1, 100, a) \o Block(d2, m2, b) :
     a \in 1..(MaxWidth + 2), b \in 1..MaxWidth, m2 \in {100, 110},
     d1 \in {<<"1", "6", "0">>}, d2 \in {<<"1", "6", "0">>, <<"1", "8", "0">>}}

\* the values of a corrected table: the corrections return nothing below zero
CorrectedValues == {0, 1}

\* self.dataDf_corrected = self.correctForNaturalAbundance() (lines 522-537),
\* one sample row: for every parental ion the columns of the working table
\* whose name contains it, under their names, with the corrected values (or
\* the measured ones for a cluster of one column)
containerCorrectForNaturalAbundance ==
  /\ clPc = "done"
  /\ ctPc = "idle"
  /\ \E vals \in [1..Len(dataDfCols) -> CorrectedValues] :
       dataDf_corrected' =
         Flatten([k \in 1..Len(internalRefList) |->
           SelectSeq([i \in 1..Len(dataDfCols) |->
                        [name |-> dataDfCols[i], col |-> i, value |-> vals[i]]],
                     LAMBDA c : Contains(c.name, internalRefList[k]))])
  /\ ctPc' = "corrected"
  /\ UNCHANGED <<internalRef, tracer, tracerPurity, NACMethod, volumeMixTotal,
                 volumeMixForPrep, volumeStandards, volumesOfDilution,
                 volumesOfSampleSoupUsed, weightNormalization,
                 dataDf_labeledProportions, timers, debouncedT, threads, nCalls>>

\* the first column in place of the last
calculateLabeledProportion_ofLast(df) ==
  LET total == SumSeq([i \in 1..Len(df) |-> df[i].value])
  IN IF Len(df) = 0 THEN "IndexError"
     ELSE RatDiv(F(total - df[Len(df)].value), F(total))

\* calculateLabeledProportion(df), one sample row; df.iloc[:,0] of a table
\* without columns raises IndexError
calculateLabeledProportion(df) ==
  LET total == SumSeq([i \in 1..Len(df) |-> df[i].value])
  IN IF Len(df) = 0 THEN "IndexError"
     ELSE RatDiv(F(total - df[1].value), F(total))

\* self.dataDf_corrected.filter(like=parentalIon)
CorrectedCluster(parentalIon) ==
  SelectSeq(dataDf_corrected, LAMBDA c : Contains(c.name, parentalIon))

\* calculateLabeledProportionForAll
calculateLabeledProportionForAll ==
  /\ ctPc = "corrected"
  /\ \E proportions \in {[k \in 1..Len(internalRefList) |->
                           calculateLabeledProportion(CorrectedCluster(internalRefList[k]))]} :
       IF \E k \in 1..Len(proportions) : proportions[k] = "IndexError"
       THEN /\ ctPc' = "IndexError"
            /\ UNCHANGED dataDf_labeledProportions
       ELSE /\ ctPc' = "proportions"
            /\ dataDf_labeledProportions' =
                 [k \in 1..Len(proportions) |->
                    [name |-> internalRefList[k], value |-> proportions[k]]]
  /\ UNCHANGED <<internalRef, tracer, tracerPurity, NACMethod, volumeMixTotal,
                 volumeMixForPrep, volumeStandards, volumesOfDilution,
                 volumesOfSampleSoupUsed, weightNormalization, dataDf_corrected,
                 timers, debouncedT, threads, nCalls>>

InitProportion ==
  /\ ionsDetected \in ProportionColumns
  /\ ClInitCommon
  /\ NAIdle
  /\ FitIdle
  /\ CtIdle
  /\ GuiIdle

NextProportion ==
  \/ computeFileAttributes /\ UNCHANGED <<naVars, fitVars, ctVars, histVars, guiVars>>
  \/ containerCorrectForNaturalAbundance /\ UNCHANGED <<naVars, clVars, fitVars, histVars, guiVars>>
  \/ calculateLabeledProportionForAll /\ UNCHANGED <<naVars, clVars, fitVars, histVars, guiVars>>

SpecProportion == InitProportion /\ [][NextProportion]_vars

(***************************************************************************)
(* Claims about NAProcess                                                  *)
(***************************************************************************)
\* the composition of C30 H54 Si1 O1
CholesterolComposition ==
  [H |-> 54, C |-> 30, N |-> 0, O |-> 1, Si |-> 1, S |-> 0]

\* hydrogen count of the chain notation by the rule of line 66, and the two
\* more of derivatization
RuleHydrogen(n, d, fames) ==
  3 + (n - 2) * 2 + 1 - 2 * d + (IF fames THEN 2 ELSE 0)

RuleCarbon(n, fames) == n + (IF fames THEN 1 ELSE 0)

\* C4 as stated: whenever the tracer count of the resolved composition is zero,
\* construction fails and no correction matrix is returned.
\* (naPc = "built": the constructor has returned, the matrix is stored.)
C4_TracerAbsentFails ==
  naPc = "built" => elementsDict[atomTracer] # 0

\* C7 as stated: for every chain notation Cn:d the parsed composition has
\* oxygen 2, carbon n (+1 derivatized) and hydrogen 3+(n-2)*2+1-2d (+2
\* derivatized), and is C30 H54 Si1 O1 whenever the cholesterol flag is set.
C7_Original ==
  \A n \in CarbonChoices, d \in 0..MaxDoubleBond, w \in BOOLEAN :
    (naPc = "built" /\ entry = MakeEntry(n, d, w)) =>
      IF CHOL THEN elementsDict = CholesterolComposition
      ELSE /\ elementsDict["O"] = 2
           /\ elementsDict["C"] = RuleCarbon(n, FAMES)
           /\ elementsDict["H"] = RuleHydrogen(n, d, FAMES)

\* C7 amended: as C7_Original wherever the hydrogen count of the rule is
\* positive; where the rule gives zero or less, the formula string has no H
\* term and the composition's hydrogen count is 0.  Silicon, nitrogen and
\* sulphur are 0 without the cholesterol flag.
C7_Composition ==
  \A n \in CarbonChoices, d \in 0..MaxDoubleBond, w \in BOOLEAN :
    (naPc = "built" /\ entry = MakeEntry(n, d, w)) =>
      IF CHOL THEN elementsDict = CholesterolComposition
      ELSE /\ elementsDict["O"] = 2
           /\ elementsDict["C"] = RuleCarbon(n, FAMES)
           /\ elementsDict["H"] = IF RuleHydrogen(n, d, FAMES) > 0
                                  THEN RuleHydrogen(n, d, FAMES) ELSE 0
           /\ elementsDict["Si"] = 0 /\ elementsDict["N"] = 0 /\ elementsDict["S"] = 0

\* C7 witness: C16:0 derivatized has been resolved to C17 H34 O2
C7_Witness ==
  /\ naPc = "built"
  /\ entry = MakeEntry(16, 0, FALSE)
  /\ FAMES /\ ~CHOL
  /\ elementsDict = [H |-> 34, C |-> 17, N |-> 0, O |-> 2, Si |-> 0, S |-> 0]

\* C8 as stated: when the correction matrix has fewer columns than the observed
\* cluster, the warning is printed and the call still returns a corrected table.
C8_WarnedCallReturns ==
  (naPc \in {"returned", "raised"} /\ naWarning)
    => (naPc = "returned" /\ naError = "none" /\ Len(correctedData) = Len(dataFrame))

\* C9 as stated: every element's natural isotope distribution has entries >= 0
\* that sum to 1.0 (within 1e-9, which is less than one part per million).
C9_DistributionsSumToOne ==
  naPc # "new" =>
  \A el \in Elements :
    /\ \A i \in 1..Len(NaturalAbundanceDistributions[el]) :
         NaturalAbundanceDistributions[el][i] >= 0
    /\ SumSeq(NaturalAbundanceDistributions[el]) = PPM

\* C10: for either method and nonnegative observed input, every component of
\* every row of the returned corrected table is >= 0.
C10_CorrectedNonNegative ==
  (/\ naPc = "returned"
   /\ \A r \in 1..Len(dataFrame) : \A c \in 1..Len(dataFrame[r]) : dataFrame[r][c] >= 0)
    => \A r \in 1..Len(correctedData) :
         \A c \in 1..Len(correctedData[r]) : correctedData[r][c] >= 0

\* C10 witness: an SMC correction of a two-column cluster with signal returned
C10_Witness ==
  /\ naPc = "returned"
  /\ method = "SMC"
  /\ Len(dataFrame[1]) = 2
  /\ dataFrame[1][1] > 0
  /\ correctedData[1][2] = 0

\* C27: for every tracer element that is modeled and present in the
\* composition (O, Si and S included, whose distributions have more than two
\* isotopes), correctForNaturalAbundance with either method completes
\* without a shape error on a cluster with at most n+1 columns and returns
\* one corrected row per input row.
C27_ModeledTracerCompletes ==
  (/\ naPc \in {"returned", "raised"}
   /\ dataFrame # <<>>
   /\ elementsDict[atomTracer] >= 1
   /\ Len(dataFrame[1]) <= elementsDict[atomTracer] + 1)
    => (naPc = "returned" /\ naError = "none" /\ Len(correctedData) = Len(dataFrame))

(***************************************************************************)
(* Claims about the cluster resolution                                     *)
(***************************************************************************)
\* every column of the resolved clusters, cluster after cluster
ClusterColumns == Flatten([k \in 1..Len(finalGroups) |-> finalGroups[k].group])

\* the position in ClusterColumns before the first column of cluster k
ClusterOffset(k) == SumSeq([j \in 1..(k - 1) |-> Len(finalGroups[j].group)])

\* s ends with the characters of t
EndsWith(s, t) ==
  Len(s) >= Len(t) /\ SubSeq(s, Len(s) - Len(t) + 1, Len(s)) = t

\* C5: in the labeled case, the columns of one shared description come out
\* sorted by ascending mass and cut into clusters exactly where two consecutive
\* masses differ by something other than 1: inside a cluster masses rise in
\* unit steps, between two consecutive clusters they do not; the n-th column of
\* a cluster is labeled M.(n-1); masses 100,101,102,105,106 give clusters of
\* sizes 3 and 2.
C5_ClusterSplitting ==
  (/\ clPc = "done"
   /\ experimentType = "Labeled"
   /\ \A i \in 1..Len(ionsDetected) :
        ionsDetected[i].description = ionsDetected[1].description)
    => LET cols == ClusterColumns
       IN /\ Len(cols) = Len(ionsDetected)
          /\ {cols[i].idx : i \in 1..Len(cols)} = 0..(Len(ionsDetected) - 1)
          /\ \A i \in 1..Len(cols) : cols[i].ion = ionsDetected[cols[i].idx + 1]
          /\ \A i \in 1..(Len(cols) - 1) : cols[i].ion.mass <= cols[i + 1].ion.mass
          /\ \A k \in 1..Len(finalGroups) :
               LET g == finalGroups[k].group
               IN /\ Len(g) >= 1
                  /\ \A n \in 1..(Len(g) - 1) : g[n + 1].ion.mass - g[n].ion.mass = 1
                  /\ k < Len(finalGroups) =>
                       finalGroups[k + 1].group[1].ion.mass - g[Len(g)].ion.mass # 1
                  /\ \A n \in 1..Len(g) :
                       /\ orderedIdx[ClusterOffset(k) + n] = g[n].idx
                       /\ EndsWith(dataColNames[ClusterOffset(k) + n],
                                   <<" ", "M", ".">> \o IntToStr(n - 1))
          /\ [i \in 1..Len(ionsDetected) |-> ionsDetected[i].mass]
               = <<100, 101, 102, 105, 106>>
             => /\ Len(finalGroups) = 2
                /\ Len(finalGroups[1].group) = 3
                /\ Len(finalGroups[2].group) = 2

\* C5 witness: masses 105,100,102,101,106 of one description were resolved into
\* a cluster of three and a cluster of two
C5_Witness ==
  /\ clPc = "done"
  /\ experimentType = "Labeled"
  /\ [i \in 1..Len(ionsDetected) |-> ionsDetected[i].mass] = <<105, 100, 102, 101, 106>>
  /\ Len(finalGroups) = 2
  /\ Len(finalGroups[1].group) = 3
  /\ dataColNames[5] = IonName(<<"1", "6", "0">>, 105) \o <<" ", "M", ".", "1">>

\* C6: a non-empty column list is classified labeled if and only if
\* (distinct descriptions) / (columns) is strictly below 0.6, that is
\* 5 * distinct < 3 * columns; at exactly 0.6 it is not labeled.
C6_LabeledIffBelowThreshold ==
  clPc # "new" =>
    LET distinct == Cardinality({ionsDetected[i].description : i \in 1..Len(ionsDetected)})
    IN /\ (experimentType = "Labeled") <=> (5 * distinct < 3 * Len(ionsDetected))
       /\ (5 * distinct = 3 * Len(ionsDetected)) => experimentType = "Not Labeled"

\* C6 witness: five columns of three distinct descriptions (ratio exactly 0.6)
\* were classified not labeled
C6_Witness ==
  /\ clPc = "done"
  /\ Len(ionsDetected) = 5
  /\ Cardinality({ionsDetected[i].description : i \in 1..Len(ionsDetected)}) = 3
  /\ experimentType = "Not Labeled"

\* C17: in the labeled case all the columns that share a description are
\* placed in one group before the split by mass, whatever their positions in
\* the column list: in the resolved clusters they stand together, no other
\* description between them, by ascending mass.
C17_GroupedByDescription ==
  (clPc = "done" /\ experimentType = "Labeled") =>
    LET cols == ClusterColumns
    IN \A a \in 1..Len(cols) : \A b \in a..Len(cols) :
         cols[a].ion.description = cols[b].ion.description =>
           /\ cols[a].ion.mass <= cols[b].ion.mass
           /\ \A c \in a..b : cols[c].ion.description = cols[a].ion.description

\* C22 as stated: whenever the cholesterol flag is set, ingestion fails with
\* an assertion error unless cluster resolution yields exactly two parental
\* groups; with exactly two groups it proceeds.
C22_Original ==
  (clPc # "new" /\ cholesterol) =>
    IF Len(finalGroups) = 2 THEN clPc = "done" ELSE clPc = "AssertionError"

\* C22, amended: whenever the cholesterol flag is set and the columns are
\* classified labeled, ingestion fails with an assertion error unless the
\* cluster resolution yields exactly two groups, and proceeds with exactly
\* two; a cholesterol file whose columns are classified not labeled is
\* ingested without any cluster being resolved.
C22_TwoGroupsWhenLabeled ==
  (clPc # "new" /\ cholesterol) =>
    IF experimentType = "Labeled"
    THEN IF Len(getIonParentedGroups(ionsDetected)) = 2
         THEN clPc = "done" /\ Len(finalGroups) = 2
         ELSE clPc = "AssertionError"
    ELSE clPc = "done" /\ finalGroups = <<>>

\* C22 witness: a labeled cholesterol file of three groups ended in the
\* assertion error
C22_Witness ==
  /\ cholesterol
  /\ experimentType = "Labeled"
  /\ Len(finalGroups) = 3
  /\ clPc = "AssertionError"

\* a sequence without its positions a and b
Without(s, a, b) == SelectSeq([i \in 1..Len(s) |-> <<i, s[i]>>],
                             LAMBDA e : e[1] # a /\ e[1] # b)

\* C23: for a labeled cholesterol experiment, the primary working table
\* omits exactly the two lowest-index isotopologue columns (M.0 and M.1) of
\* one cluster, the cholesterol cluster, and keeps every other column of
\* every cluster, while the side table dataDf_chol keeps all the columns.
\* (dataDf_chol carries the columns of df_Data, which are dataColNames.)
C23_CholesterolColumns ==
  (clPc = "done" /\ cholesterol /\ experimentType = "Labeled") =>
    /\ Len(dataColNames) = Len(ionsDetected)
    /\ \E k \in 1..Len(finalGroups) :
         /\ Len(finalGroups[k].group) >= 2
         /\ LET kept == Without(dataColNames, ClusterOffset(k) + 1, ClusterOffset(k) + 2)
            IN dataDfCols = [i \in 1..Len(kept) |-> kept[i][2]]

\* C28: in the labeled case the resolved clusters partition the input
\* columns: every input column index occurs in exactly one cluster and
\* exactly once, so the reordered data table has the same number of columns
\* as the input and no column is dropped or duplicated by grouping and
\* splitting.
C28_ClustersPartitionColumns ==
  (clPc # "new" /\ experimentType = "Labeled") =>
    LET cols == ClusterColumns
        n == Len(ionsDetected)
    IN /\ Len(cols) = n
       /\ \A idx \in 0..(n - 1) :
            Cardinality({i \in 1..Len(cols) : cols[i].idx = idx}) = 1
       /\ \A i \in 1..Len(cols) : cols[i].ion = ionsDetected[cols[i].idx + 1]
       /\ \A k \in 1..Len(finalGroups) : Len(finalGroups[k].group) >= 1
       /\ clPc = "done" =>
            /\ Len(orderedIdx) = n
            /\ Len(dataColNames) = n
            /\ \A idx \in 0..(n - 1) :
                 Cardinality({i \in 1..n : orderedIdx[i] = idx}) = 1

\* C28 witness: five columns of two descriptions, not adjacent, were
\* resolved into four clusters or more
C28_Witness ==
  /\ clPc = "done"
  /\ experimentType = "Labeled"
  /\ Len(ionsDetected) = 5
  /\ ionsDetected[1].description = ionsDetected[3].description
  /\ ionsDetected[1].description # ionsDetected[2].description
  /\ Len(finalGroups) >= 4
  /\ \E k \in 1..Len(finalGroups) : Len(finalGroups[k].group) = 2

(***************************************************************************)
(* Claims about the standard curves                                        *)
(***************************************************************************)
\* the number of pairs the mask in force leaves to the cluster of column i
UsablePairs(i) ==
  LET m == maskFAMES[dataDf_norm[i].name]
      mask == IF m.hasNew THEN m.newMask ELSE m.originalMask
  IN Cardinality({p \in 1..Len(mask) : mask[p]})

\* C1: once the fits are computed, a cluster whose mask leaves fewer than 3
\* usable (quantity, signal) pairs (0, 1 or exactly 2) has no slope/intercept/R2
\* entry in the fit results, and the quantification holds no quantity for it.
C1_FewPairsNoFit ==
  fitPc \in {"fitted", "quantified"} =>
    \A i \in 1..Len(dataDf_norm) :
      (dataDf_norm[i].name \in DOMAIN maskFAMES /\ UsablePairs(i) < 3) =>
        /\ dataDf_norm[i].name \notin DOMAIN standardDf_fitResults
        /\ fitPc = "quantified" => dataDf_norm[i].name \notin DOMAIN dataDf_quantification

\* C14: the quantity of a cluster in a sample is (normalized signal -
\* intercept) / slope with the slope and intercept of that cluster's own fit;
\* a signal of 13 with slope 2 and intercept 3 gives 5.
C14_QuantityFromOwnFit ==
  fitPc = "quantified" =>
    /\ DOMAIN dataDf_quantification = DOMAIN standardDf_fitResults
    /\ \A col \in DOMAIN dataDf_quantification :
         LET fit == standardDf_fitResults[col]
             signal == Column(dataDf_norm, col).sample
             q == dataDf_quantification[col]
         IN /\ signal = NaN => q = NaN
            /\ (signal # NaN /\ fit.slope # NaN /\ fit.slope # F(0))
                 => /\ q # NaN
                    /\ RatSub(signal, RatMul(q, fit.slope)) = fit.intercept
            /\ (signal = F(13) /\ fit.slope = F(2) /\ fit.intercept = F(3))
                 => q = F(5)

\* C14 witness: two clusters quantified with different fits
C14_Witness ==
  /\ fitPc = "quantified"
  /\ DOMAIN dataDf_quantification = {Ion270, Ion275}
  /\ standardDf_fitResults[Ion270].slope = F(2)
  /\ standardDf_fitResults[Ion270].intercept = F(3)
  /\ dataDf_quantification[Ion270] = F(5)
  /\ standardDf_fitResults[Ion275].slope = F(4)
  /\ dataDf_quantification[Ion275] = F(3)

\* the quantities a data column is fitted against: those of the standard
\* column of its name, or of the column found for its chain
QuantitiesFor(col) ==
  IF \E k \in 1..Len(standardDf_nMoles) : standardDf_nMoles[k].name = col
  THEN Column(standardDf_nMoles, col).values
  ELSE Column(standardDf_nMoles,
              checkIfParentalIonDataExistsFor(col, standardDf_nMoles).name).values

\* the standards whose quantity is there and whose signal is there and not zero
UsableStandards(col) ==
  LET x == QuantitiesFor(col)
      y == Column(dataDf_norm, col).standards
  IN SelectSeq([p \in 1..Len(x) |-> p],
               LAMBDA p : x[p] # NaN /\ y[p] # NaN /\ y[p] # F(0))

\* C19: with useMask = False a (quantity, signal) pair is marked usable if and
\* only if the quantity is not missing, the signal is not missing and the
\* signal is not zero, and the regression is made on the usable pairs only.
C19_MaskAndRegression ==
  fitPc \in {"fitted", "quantified"} =>
    \A col \in DOMAIN maskFAMES :
      LET x == QuantitiesFor(col)
          y == Column(dataDf_norm, col).standards
          usable == UsableStandards(col)
      IN /\ \A p \in 1..Len(x) :
              maskFAMES[col].originalMask[p]
                <=> (x[p] # NaN /\ y[p] # NaN /\ y[p] # F(0))
         /\ col \in DOMAIN standardDf_fitResults =>
              standardDf_fitResults[col] =
                linregress([i \in 1..Len(usable) |-> x[usable[i]]],
                           [i \in 1..Len(usable) |-> y[usable[i]]])

\* C19 witness: a fit made while one pair is out for a zero signal and, in the
\* other cluster, one for a missing signal
C19_Witness ==
  /\ fitPc = "fitted"
  /\ Ion270 \in DOMAIN standardDf_fitResults
  /\ Ion275 \in DOMAIN standardDf_fitResults
  /\ Column(dataDf_norm, Ion270).standards[1] = F(0)
  /\ ~maskFAMES[Ion270].originalMask[1]
  /\ Column(dataDf_norm, Ion275).standards[1] = NaN
  /\ ~maskFAMES[Ion275].originalMask[1]
  /\ maskFAMES[Ion275].originalMask[2]

\* the data column has no standard column of its name
NoOwnStandard(col) == \A k \in 1..Len(standardDf_nMoles) : standardDf_nMoles[k].name # col

\* the standard columns of the chain code of col, "Cn:d (mass)"
SameChain(col) ==
  {k \in 1..Len(standardDf_nMoles) :
     /\ MatchIonName(standardDf_nMoles[k].name).ok
     /\ MatchIonName(standardDf_nMoles[k].name).carbon = MatchIonName(col).carbon}

\* the standard columns whose name begins with the chain code of col but
\* goes on with something else than " (mass)"
BeginsLikeChain(col) ==
  {k \in 1..Len(standardDf_nMoles) :
     /\ StartsWith(standardDf_nMoles[k].name, MatchIonName(col).carbon)
     /\ k \notin SameChain(col)}

\* the column of the greatest mass among those of the chain code of col
Heaviest(col) ==
  CHOOSE k \in SameChain(col) :
    \A j \in SameChain(col) :
      MatchIonName(standardDf_nMoles[j].name).mass
        <= MatchIonName(standardDf_nMoles[k].name).mass

\* the fit of col against the quantities of the k-th standard column, on the
\* pairs with a signal
FitAgainst(col, k) ==
  LET x == standardDf_nMoles[k].values
      y == Column(dataDf_norm, col).standards
      usable == SelectSeq([p \in 1..Len(x) |-> p],
                          LAMBDA p : x[p] # NaN /\ y[p] # NaN /\ y[p] # F(0))
  IN [pairs |-> Len(usable),
      fit |-> linregress([i \in 1..Len(usable) |-> x[usable[i]]],
                         [i \in 1..Len(usable) |-> y[usable[i]]])]

Quiescent == \A i \in 1..Len(timers) : timers[i] \notin {"waiting", "running"}

\* the values call i left in tracer, purity and method, as a body reads them:
\* tracer and purity when it builds an NAProcess, the method when it corrects
ValuesOfCall(i, read) ==
  IF Len(read.values) = 2 THEN <<callParams[i][1], callParams[i][2]>>
  ELSE <<callParams[i][3]>>

CurrentNorm == [internalRef |-> internalRef]

CurrentNMoles == [volumeMixForPrep |-> volumeMixForPrep,
                  volumeMixTotal |-> volumeMixTotal,
                  volumeStandards |-> volumeStandards]

CurrentFit == [norm |-> CurrentNorm, nMoles |-> CurrentNMoles]

\* every cluster of the table that was corrected was corrected with the
\* tracer, purity and method of now
CorrectedIsCurrent(table) ==
  \A k \in 1..Len(table) : table[k] # <<>> => table[k] = <<tracer, tracerPurity, NACMethod>>

\* C3: once the mutators have returned and no debounce timer is pending or
\* running, no derived view that exists (normalized table, corrected table,
\* labeled proportions, standard nMoles, calibration fits, quantification)
\* holds a value computed from a parameter value that has been replaced.
C3_NoStaleView ==
  (ctPc = "ready" /\ Quiescent) =>
    /\ dataDf_norm # <<>> => dataDf_norm[1] = CurrentNorm
    /\ standardDf_nMoles[1] = CurrentNMoles
    /\ dataDf_corrected # <<>> => CorrectedIsCurrent(dataDf_corrected[1])
    /\ dataDf_labeledProportions # <<>> => CorrectedIsCurrent(dataDf_labeledProportions[1])
    /\ standardDf_fitResults # <<>> => standardDf_fitResults[1] = CurrentFit
    /\ dataDf_quantification # <<>> => dataDf_quantification[1] = CurrentFit

\* the clusters of a table that were corrected (a cluster of one column is copied)
CorrectedClusters(table) == {k \in 1..Len(table) : table[k] # <<>>}

\* C25: in every reachable state, also when updateTracer, updateTracerPurity
\* or updateNACMethod is called while a timer thread is recomputing and when
\* two timer threads overlap, all corrected clusters of dataDf_corrected were
\* corrected with the same (tracer, purity, method) triple, the labeled
\* proportions that exist were derived from that dataDf_corrected, and once no
\* timer is pending or running the triple is the current one.
C25_OneSnapshot ==
  /\ dataDf_corrected # <<>> =>
       \A a, b \in CorrectedClusters(dataDf_corrected[1]) :
         dataDf_corrected[1][a] = dataDf_corrected[1][b]
  /\ dataDf_labeledProportions # <<>> => dataDf_labeledProportions = dataDf_corrected
  /\ (Quiescent /\ dataDf_corrected # <<>>) => CorrectedIsCurrent(dataDf_corrected[1])

\* saveStandardCurvesAndResults gets as far as the sheets of the labeled
\* proportions (lines 658-666): the container is constructed, the experiment
\* is labeled and the normalized table the fits need exists
SaveReadsLabeledProportions ==
  ctPc = "ready" /\ experimentType = "Labeled" /\ dataDf_norm # <<>>

\* C26: for a labeled experiment, in every state in which
\* saveStandardCurvesAndResults reads the labeled proportions to build the
\* newly-synthesized and percentage sheets, whatever the interleaving of
\* parameter updates, timer firings and saves that led there, the table exists
\* and was computed from the tracer, purity and method of that moment.
C26_SaveReadsCurrentProportions ==
  SaveReadsLabeledProportions =>
    /\ dataDf_labeledProportions # <<>>
    /\ CorrectedIsCurrent(dataDf_labeledProportions[1])

(***************************************************************************)
(* The correction matrix                                                   *)
(***************************************************************************)
TracerCount == matrixArgs.elementDict[matrixArgs.atomTracer]

TracerIsotopes == Len(matrixArgs.NADistributions[matrixArgs.atomTracer])

OthersDistribution ==
  LET d == matrixArgs.NADistributions
      count(el) == IF el = matrixArgs.atomTracer THEN 0 ELSE matrixArgs.elementDict[el]
  IN ConvolveRepeat(ConvolveRepeat(ConvolveRepeat(ConvolveRepeat(ConvolveRepeat(
       ConvolveRepeat(<<1>>, d.S, count("S")), d.Si, count("Si")), d.O, count("O")),
       d.N, count("N")), d.C, count("C")), d.H, count("H"))

\* column i in full: the base vector convolved i times with the purity and
\* n - i times with the tracer's natural distribution, nothing cut on the way
FullColumn(i) ==
  ConvolveRepeat(ConvolveRepeat(OthersDistribution, matrixArgs.purityTracer, i),
                 matrixArgs.NADistributions[matrixArgs.atomTracer], TracerCount - i)

\* C12: column i of the matrix is the base vector convolved i times with the
\* tracer purity and n - i times with the tracer's natural distribution, cut
\* to the m rows of the matrix (column 0: n times the natural distribution,
\* no purity), and the tracer's own atoms contribute nothing to the base
\* vector.
C12_ColumnsAreConvolutions ==
  \A r \in 1..Len(matrixResults) :
    LET res == matrixResults[r]
    IN /\ res.vector = IF Len(OthersDistribution) < res.nRows
                       THEN Resize(OthersDistribution, res.nRows)
                       ELSE OthersDistribution
       /\ \A i \in 0..TracerCount :
            res.columns[i + 1] = Resize(FullColumn(i), res.nRows)

C12_Witness ==
  /\ TracerCount = 2
  /\ matrixArgs.purityTracer = <<1, 2>>
  /\ Len(matrixResults) >= 1
  /\ Len(OthersDistribution) > matrixResults[1].nRows
  /\ Len(FullColumn(1)) > matrixResults[1].nRows
  /\ matrixResults[1].columns[2] # matrixResults[1].columns[1]
  /\ matrixResults[1].columns[3] # matrixResults[1].columns[2]

\* C18: computeCorrectionMatrix pads the base vector with trailing zeros when
\* it is shorter than the m rows of the matrix, and emits the size warning
\* exactly when the base vector is longer than m, returning a matrix in both
\* cases.
C18_WarnsIffLonger ==
  \A r \in 1..Len(matrixResults) :
    LET res == matrixResults[r]
    IN /\ res.error = "none"
       /\ res.padded = (Len(OthersDistribution) < res.nRows)
       /\ res.padded => res.vector = Resize(OthersDistribution, res.nRows)
       /\ res.sizeWarning = (Len(OthersDistribution) > res.nRows)

\* C16: for a well-conditioned correction matrix M (here: full column rank,
\* every column starting on the diagonal) and a nonnegative abundance vector
\* v with sum 1, the SMC correction of the observation M.v returns v.
C16_RoundTripSMC ==
  (naPc \in {"returned", "raised"} /\ LowerTriangular(matrixResults[1].columns))
    => /\ naPc = "returned"
       /\ \A w \in AbundanceWeights(matrixResults[1].nCols) :
            dataFrame[1] = Observation(matrixResults[1].columns, w)
              => correctedData[1] = Abundance(w)

(***************************************************************************)
(* Claims about the labeled proportions                                    *)
(***************************************************************************)
\* the mass of the ion behind the i-th column of the working table
WorkingColumnMass(i) ==
  ionsDetected[orderedIdx[i + (Len(dataColNames) - Len(dataDfCols))] + 1].mass

C15_NormalizationFactor ==
  [][normalization' # normalization =>
       /\ Len(normalization') = Len(dataDf_norm)
       /\ \A r \in 1..Len(dataDf_norm) :
            IsSampleName(dataDf_norm[r].SampleName) =>
              LET weight == dataDf_norm[r].SampleWeight
                  own == Cardinality({q \in 1..r : IsSampleName(dataDf_norm[q].SampleName)})
              IN IF weightNormalization
                 THEN normalization'[r] = F(weight)
                 ELSE RatMul(normalization'[r], F(volumesOfDilution[own] + weight))
                        = F(volumesOfSampleSoupUsed[own] * weight)]_vars

\* C15 witness: factors computed in the relative mode for two samples of
\* weight 250 whose dilution volumes are 750 and 500
C15_Witness ==
  /\ ~weightNormalization
  /\ volumesOfDilution = <<750, 500>>
  /\ volumesOfSampleSoupUsed = <<5, 5>>
  /\ dataDf_norm[1].SampleName = <<"S", "1">>
  /\ normalization = <<F(1), <<5, 4>>, <<5, 3>>>>

(***************************************************************************)
(* Claims about the standard-curve inspector                               *)
(***************************************************************************)
\* the fit of a column on the points a mask keeps; skipped when the points
\* are too few for line 757
FitOnMask(col, mask) ==
  LET x == Masked(Column(standardDf_nMoles, col).values, mask)
      y == Masked(Column(dataDf_norm, col).standards, mask)
  IN [skipped |-> TooFewValues(Len(x), Len(y)), fit |-> linregress(x, y)]

\* C21: computeStandardFits(useMask=True), called after a
\* computeStandardFits(useMask=False), fits each cluster with its modified
\* mask when one has been recorded for that cluster and with its original
\* mask otherwise, and leaves every stored original mask unchanged.
C21_RefitWithRecordedMasks ==
  [][inspectorPc = "open" /\ inspectorPc' = "sent" =>
       /\ DOMAIN maskFAMES' = DOMAIN maskFAMES
       /\ \A col \in DOMAIN maskFAMES :
            LET recorded == maskFAMES[col]
                expected == FitOnMask(col, IF recorded.hasNew THEN recorded.newMask
                                           ELSE recorded.originalMask)
            IN /\ maskFAMES'[col].originalMask = recorded.originalMask
               /\ IF expected.skipped THEN col \notin DOMAIN standardDf_fitResults'
                  ELSE /\ col \in DOMAIN standardDf_fitResults'
                       /\ standardDf_fitResults'[col] = expected.fit]_vars

\* C21 witness: the inspector has sent its masks; one cluster was refitted
\* with a modified mask that leaves out a point its original mask keeps, the
\* other, never shown, with its original mask
C21_Witness ==
  /\ inspectorPc = "sent"
  /\ fitPc = "quantified"
  /\ Ion270 \in DOMAIN standardDf_fitResults
  /\ Ion275 \in DOMAIN standardDf_fitResults
  /\ maskFAMES[Ion270].hasNew
  /\ maskFAMES[Ion270].newMask # maskFAMES[Ion270].originalMask
  /\ ~maskFAMES[Ion275].hasNew

\* C29: after any sequence of point selections in the inspector, the
\* modified mask of a cluster never marks as usable a point that the
\* cluster's original mask marks as unusable, and the original mask itself
\* is never changed by the inspector.
C29_NewMaskWithinOriginal ==
  /\ [](\A col \in DOMAIN maskFAMES :
          maskFAMES[col].hasNew =>
            \A p \in 1..Len(maskFAMES[col].originalMask) :
              maskFAMES[col].newMask[p] => maskFAMES[col].originalMask[p])
  /\ [][\A col \in DOMAIN maskFAMES :
          /\ col \in DOMAIN maskFAMES'
          /\ maskFAMES'[col].originalMask = maskFAMES[col].originalMask]_vars

\* C29 witness: in the open inspector a cluster with a point that its
\* original mask leaves out has a modified mask that leaves out another
\* point too
C29_Witness ==
  /\ inspectorPc = "open"
  /\ \E col \in DOMAIN maskFAMES :
       /\ maskFAMES[col].hasNew
       /\ \E p, q \in 1..Len(maskFAMES[col].originalMask) :
            /\ ~maskFAMES[col].originalMask[p]
            /\ maskFAMES[col].originalMask[q]
            /\ ~maskFAMES[col].newMask[q]

(***************************************************************************)
(* Claims about parseFormula                                               *)
(***************************************************************************)
\* the element whose symbol occurs at position i of s, or None: H, C, N, O
\* by their letter; an S followed by i is silicon, any other S sulphur
OccurrenceAt(s, i) ==
  IF s[i] \in {"H", "C", "N", "O"} THEN s[i]
  ELSE IF s[i] = "S" THEN (IF i < Len(s) /\ s[i + 1] = "i" THEN "Si" ELSE "S")
  ELSE None

\* the count that follows the symbol occurring at position i: the decimal
\* number written by the digits after it, 1 without a digit
CountAfter(s, i) ==
  LET first == i + (IF OccurrenceAt(s, i) = "Si" THEN 2 ELSE 1)
      digits == {e \in first..Len(s) : \A j \in first..e : IsDigit(s[j])}
      last == IF digits = {} THEN first - 1
              ELSE CHOOSE e \in digits : \A d \in digits : d <= e
  IN IF digits = {} THEN 1 ELSE StrToNat(SubSeq(s, first, last))

\* C24: for any formula string, the result of parseFormula maps only the six
\* recognized element symbols to nonnegative integers; each occurrence of a
\* recognized symbol adds its following integer count, or 1 when no count
\* follows, to that element's total (repeated symbols accumulate, Si is read
\* as silicon and not as sulphur), and characters that are not part of a
\* recognized symbol add nothing to any element.
C24_ParseFormula ==
  naPc = "parsed" =>
    /\ DOMAIN elementsDict = {"H", "C", "N", "O", "Si", "S"}
    /\ \A el \in DOMAIN elementsDict :
         /\ elementsDict[el] \in Nat
         /\ elementsDict[el] =
              SumSeq([i \in 1..Len(formula) |->
                        IF OccurrenceAt(formula, i) = el
                        THEN CountAfter(formula, i) ELSE 0])

\* C24 witness: "Si2S" was parsed into two silicon atoms and one sulphur atom
C24_Witness ==
  /\ naPc = "parsed"
  /\ formula = <<"S", "i", "2", "S">>
  /\ elementsDict["Si"] = 2
  /\ elementsDict["S"] = 1

(***************************************************************************)
(* Claims about the volumes read from the template                         *)
(***************************************************************************)
\* C30: when the number of non-missing volumes read from the template
\* differs from the number of declared samples, the call of
\* updateVolumeOfDilutionFromTemplateFile fails with an assertion error and
\* leaves volumesOfDilution and volumesOfSampleSoupUsed as they were before
\* the call, so that both lists always have one volume per sample.
C30_FailedUpdateLeavesVolumes ==
  /\ [][ctPc' = "AssertionError" =>
          /\ volumesOfDilution' = volumesOfDilution
          /\ volumesOfSampleSoupUsed' = volumesOfSampleSoupUsed]_vars
  /\ [](/\ Len(volumesOfDilution) = numberOfSamples
        /\ Len(volumesOfSampleSoupUsed) = numberOfSamples
        /\ VolumesComplete(volumesOfDilution)
        /\ VolumesComplete(volumesOfSampleSoupUsed))

====
